---------------------------- MODULE Spec2Model ----------------------------
(***************************************************************************)
(* Syndesmoscope: the interaction/state engine shared by the panes.        *)
(*                                                                         *)
(*   - the Selection Store (SelectionContext.jsx): four React state sets,  *)
(*     their mutation callbacks, the memoized highlight queries and the    *)
(*     context value delivered to every pane;                              *)
(*   - the per-pane viewport controller (useZoomPan).                      *)
(*                                                                         *)
(* React state is modelled as it behaves: a setState call queues an update *)
(* (the store variables hold the state with every queued update applied,   *)
(* which is what a functional update `prev => ...` receives), and a later  *)
(* render of the provider publishes it to the consumers.                   *)
(***************************************************************************)
EXTENDS Integers, Sequences, FiniteSets, TLC

(***************************************************************************)
(* Bounds of the model.                                                    *)
(***************************************************************************)
MaxNodeIdx == 2
MaxEdgeIdx == 1
MaxBatch == 2

NodeIds == 1..MaxNodeIdx
EdgeIds == 1..MaxEdgeIdx

\* The panes PaneLayout mounts, left to right.
PaneKind == <<"NodeLink", "KSnakes", "NodeLink", "NodeLink">>
Panes == DOMAIN PaneKind

VARIABLES
    hoveredNodes,    \* useState: hovered node identifiers
    hoveredEdges,    \* useState: hovered edge identifiers
    selectedNodes,   \* useState: selected node identifiers
    selectedEdges,   \* useState: selected edge identifiers
    pending,         \* a state update is queued and the provider has not re-rendered
    value,           \* the context value of the provider's last render
    cbNode,          \* what the isNodeHighlighted closure captured
    cbEdge,          \* what the isEdgeHighlighted closure captured
    paneCtx,         \* per pane: the context value its last render received
    svgRef,          \* per pane: svgRef.current is set (the pane has built its surface)
    styled,          \* per pane: the sets its highlighting effect last applied
    batch,           \* store updates queued since the provider's last render
    subject,         \* the pane whose viewport controller a viewport specification drives
    viewBox,         \* per pane: width and height of its surface
    frames,          \* intermediate transition frames rendered so far
    elemZoom,        \* per pane: the surface element's __zoom transform
    transform,       \* per pane: useState transform of useZoomPan
    scheduled,       \* per pane: transitions created and not yet started, oldest first
    running,         \* per pane: the running transition (start, target), or NoTransition
    zoomCalls,       \* viewport calls made so far
    clientRect,      \* per pane: getBoundingClientRect() size of its surface
    zoomBound,       \* per pane: the zoom behaviour's listeners are on its current surface
    filterFnRef,     \* per pane: filterFnRef.current of useZoomPan
    zoomFilter,      \* per pane: the filter of the zoom behaviour
    detached,        \* per pane: replaced surfaces with transitions left, oldest first
    step,            \* history: the last viewport input (kind, pane, argument)
    viewOps,         \* viewport inputs and lifecycle events so far
    sims,            \* the force simulations built so far, by generation
    simulationRef,   \* simulationRef.current as a generation, 0 for null
    rendered,        \* the generation whose elements are in the document, 0 for none
    data,            \* the data prop of the node-link pane, 0 for null
    containerArea,   \* the pane's container measures a positive width and height
    mounted,         \* the node-link pane is mounted
    cleanupSim,      \* the generation the pending effect cleanup stops, 0 for none
    resizeObserved,  \* the generation a ResizeObserver callback holds, 0 for none
    simStep,         \* history: the last simulation step (kind, generation, node)
    currentNetworkId,\* useState of NetworkProvider: the loaded network's id, 0 for null
    networkData,     \* useState of NetworkProvider: the loaded data, NoData for null
    isLoading,       \* useState of NetworkProvider
    error,           \* useState of NetworkProvider: an error message is set
    loads,           \* loadNetwork calls awaiting their fetches: the requested ids
    netStep,         \* history: the last network step (kind, id, data shown before)
    buildInput,      \* the node and edge lists given to the simulation build
    buildResult,     \* what the last build left: simulation nodes and edges
    prevResult,      \* history: what the build before the last one left
    containerRef,    \* per pane: its container element is mounted
    lastBuilt,       \* per pane: the shape of the data its surface was built from
    listeners,       \* per pane: the kinds of listener attached in the document
    activeElement,   \* document.activeElement as a pane's container, 0 for none
    appStep,         \* history: the last key, button or click (kind, pane, outcome)
    hookResult,      \* the outcome of the last useSelection or useNetwork call
    fz,              \* the scale of a pane as a double, with its last two zoom calls
    latest,          \* history: the last dataset loadNetwork fetched for, and its outcome
    pointerOver,     \* the element the mouse pointer is over (pane, kind, identifier)
    census,          \* a HopCensusPane: data prop, container, observer, elements
    fit,             \* a node-link pane's node layout, surface size and fit to content
    heap,            \* node and edge records as objects, and the arrays that hold them
    lastOp,          \* history: the last store operation called, with its argument
    prevStore,       \* history: the four sets before that call
    twice,           \* history: the last two calls were the same operation and argument
    prev2Store       \* history: if so, the four sets before the first of the two

storeVars == <<hoveredNodes, hoveredEdges, selectedNodes, selectedEdges>>
renderVars == <<value, cbNode, cbEdge, paneCtx, styled>>
histVars == <<lastOp, prevStore, twice, prev2Store>>
zoomVars ==
    <<subject, viewBox, frames, elemZoom, transform, scheduled, running,
      zoomCalls>>
viewVars ==
    <<clientRect, zoomBound, filterFnRef, zoomFilter, detached, step, viewOps>>
simVars ==
    <<sims, simulationRef, rendered, data, containerArea, mounted, cleanupSim,
      resizeObserved, simStep>>
netVars == <<currentNetworkId, networkData, isLoading, error, loads, netStep>>
buildVars == <<buildInput, buildResult, prevResult>>
appVars == <<containerRef, lastBuilt, listeners, activeElement, appStep>>
hookVars == <<hookResult>>
furtherVars == <<fz, latest, pointerOver, census, fit, heap>>
vars ==
    <<storeVars, pending, renderVars, svgRef, batch, histVars, zoomVars,
      viewVars, simVars, netVars, buildVars, appVars, hookVars, furtherVars>>

\* The four sets as one record (the state part of the context value).
Store ==
    [hoveredNodes |-> hoveredNodes, hoveredEdges |-> hoveredEdges,
     selectedNodes |-> selectedNodes, selectedEdges |-> selectedEdges]

EmptyStore ==
    [hoveredNodes |-> {}, hoveredEdges |-> {},
     selectedNodes |-> {}, selectedEdges |-> {}]

(***************************************************************************)
(* Identifier arrays passed to the bulk operations.  An array is a         *)
(* sequence; the model draws it from the ascending enumerations of the     *)
(* subsets of the identifiers plus the arrays <<i, i>> that repeat one.    *)
(***************************************************************************)
RECURSIVE Ascending(_)
Ascending(S) ==
    IF S = {} THEN <<>>
    ELSE LET m == CHOOSE x \in S : \A y \in S : x <= y
         IN <<m>> \o Ascending(S \ {m})

IdArrays(Ids) ==
    {Ascending(S) : S \in SUBSET Ids} \cup {<<i, i>> : i \in Ids}

\* new Set(array)
NewSet(arr) == {arr[k] : k \in DOMAIN arr}

\* array.forEach(idx => next.add(idx)) on a copy of prev
RECURSIVE AddEach(_, _)
AddEach(prev, arr) ==
    IF arr = <<>> THEN prev
    ELSE AddEach(prev \cup {Head(arr)}, Tail(arr))

\* array.forEach(idx => next.delete(idx)) on a copy of prev
RECURSIVE DeleteEach(_, _)
DeleteEach(prev, arr) ==
    IF arr = <<>> THEN prev
    ELSE DeleteEach(prev \ {Head(arr)}, Tail(arr))

\* The body of the toggle updaters: copy prev, delete idx if present, else add.
ToggleAlwaysAdd(prev, idx) == prev \cup {idx}
Toggle(prev, idx) ==
    IF idx \in prev THEN prev \ {idx} ELSE prev \cup {idx}


(***************************************************************************)
(* Selection Store operations (SelectionProvider).  Each is the whole      *)
(* callback: the setState calls it makes, every one of which queues a      *)
(* re-render of the provider.  These definitions constrain the store and   *)
(* `pending` only; the actions of a specification add what else is         *)
(* unchanged.                                                              *)
(***************************************************************************)
hoverNode(nodeIdx) ==
    /\ hoveredNodes' = NewSet(<<nodeIdx>>)
    /\ UNCHANGED <<hoveredEdges, selectedNodes, selectedEdges>>
    /\ pending' = TRUE

hoverNodesUnion(nodeIdxArray) ==
    /\ hoveredNodes' = hoveredNodes \cup NewSet(nodeIdxArray)
    /\ UNCHANGED <<hoveredEdges, selectedNodes, selectedEdges>>
    /\ pending' = TRUE

hoverNodes(nodeIdxArray) ==
    /\ hoveredNodes' = NewSet(nodeIdxArray)
    /\ UNCHANGED <<hoveredEdges, selectedNodes, selectedEdges>>
    /\ pending' = TRUE

clearHoveredNodes ==
    /\ hoveredNodes' = {}
    /\ UNCHANGED <<hoveredEdges, selectedNodes, selectedEdges>>
    /\ pending' = TRUE

hoverEdge(edgeIdx) ==
    /\ hoveredEdges' = NewSet(<<edgeIdx>>)
    /\ UNCHANGED <<hoveredNodes, selectedNodes, selectedEdges>>
    /\ pending' = TRUE

hoverEdges(edgeIdxArray) ==
    /\ hoveredEdges' = NewSet(edgeIdxArray)
    /\ UNCHANGED <<hoveredNodes, selectedNodes, selectedEdges>>
    /\ pending' = TRUE

clearHoveredEdges ==
    /\ hoveredEdges' = {}
    /\ UNCHANGED <<hoveredNodes, selectedNodes, selectedEdges>>
    /\ pending' = TRUE

clearHoverNodesOnly ==
    /\ hoveredNodes' = {}
    /\ UNCHANGED <<hoveredEdges, selectedNodes, selectedEdges>>
    /\ pending' = TRUE

clearHoverAndSelection ==
    /\ hoveredNodes' = {}
    /\ hoveredEdges' = {}
    /\ selectedNodes' = {}
    /\ UNCHANGED selectedEdges
    /\ pending' = TRUE

clearHover ==
    /\ hoveredNodes' = {}
    /\ hoveredEdges' = {}
    /\ UNCHANGED <<selectedNodes, selectedEdges>>
    /\ pending' = TRUE

toggleNodeSelection(nodeIdx) ==
    /\ selectedNodes' = Toggle(selectedNodes, nodeIdx)
    /\ UNCHANGED <<hoveredNodes, hoveredEdges, selectedEdges>>
    /\ pending' = TRUE

selectNodesReplace(nodeIdxArray) ==
    /\ selectedNodes' = NewSet(nodeIdxArray)
    /\ UNCHANGED <<hoveredNodes, hoveredEdges, selectedEdges>>
    /\ pending' = TRUE

selectNodes(nodeIdxArray) ==
    /\ selectedNodes' = AddEach(selectedNodes, nodeIdxArray)
    /\ UNCHANGED <<hoveredNodes, hoveredEdges, selectedEdges>>
    /\ pending' = TRUE

deselectNodes(nodeIdxArray) ==
    /\ selectedNodes' = DeleteEach(selectedNodes, nodeIdxArray)
    /\ UNCHANGED <<hoveredNodes, hoveredEdges, selectedEdges>>
    /\ pending' = TRUE

clearSelectedNodes ==
    /\ selectedNodes' = {}
    /\ UNCHANGED <<hoveredNodes, hoveredEdges, selectedEdges>>
    /\ pending' = TRUE

toggleEdgeSelection(edgeIdx) ==
    /\ selectedEdges' = Toggle(selectedEdges, edgeIdx)
    /\ UNCHANGED <<hoveredNodes, hoveredEdges, selectedNodes>>
    /\ pending' = TRUE

selectEdges(edgeIdxArray) ==
    /\ selectedEdges' = AddEach(selectedEdges, edgeIdxArray)
    /\ UNCHANGED <<hoveredNodes, hoveredEdges, selectedNodes>>
    /\ pending' = TRUE

deselectEdges(edgeIdxArray) ==
    /\ selectedEdges' = DeleteEach(selectedEdges, edgeIdxArray)
    /\ UNCHANGED <<hoveredNodes, hoveredEdges, selectedNodes>>
    /\ pending' = TRUE

clearSelectedEdges ==
    /\ selectedEdges' = {}
    /\ UNCHANGED <<hoveredNodes, hoveredEdges, selectedNodes>>
    /\ pending' = TRUE

clearAllSelectionsKeepHoveredEdges ==
    /\ hoveredNodes' = {}
    /\ selectedNodes' = {}
    /\ selectedEdges' = {}
    /\ UNCHANGED hoveredEdges
    /\ pending' = TRUE

clearAllSelections ==
    /\ hoveredNodes' = {}
    /\ hoveredEdges' = {}
    /\ selectedNodes' = {}
    /\ selectedEdges' = {}
    /\ pending' = TRUE

(***************************************************************************)
(* Rendering.  A render of SelectionProvider reads the state, re-creates   *)
(* each highlight callback whose dependency list changed, rebuilds the     *)
(* memoized context value and re-renders every consumer with it.  React    *)
(* compares dependencies by identity; every setter call above installs a   *)
(* fresh Set, so a dependency that kept its identity also kept its         *)
(* content, and comparing contents re-creates a callback exactly when its  *)
(* captured content would differ.                                          *)
(***************************************************************************)
NodeHighlightDepsHoverOnly(s) == <<s.hoveredNodes>>
NodeHighlightDeps(s) == <<s.hoveredNodes, s.selectedNodes>>

EdgeHighlightDeps(s) == <<s.hoveredEdges, s.selectedEdges>>

\* The closures returned by useCallback: they read the sets of the render
\* that created them.
isNodeHighlighted(nodeIdx) ==
    nodeIdx \in cbNode.hoveredNodes \/ nodeIdx \in cbNode.selectedNodes

isEdgeHighlighted(edgeIdx) ==
    edgeIdx \in cbEdge.hoveredEdges \/ edgeIdx \in cbEdge.selectedEdges

\* <SelectionContext.Provider value={value}>: every pane's useSelection()
\* returns the provider's current value in the same render pass.
ProvideToFirstOnly(v, old) == [p \in Panes |-> IF p = 1 THEN v ELSE old[p]]
Provide(v, old) == [p \in Panes |-> v]

\* What a pane's highlighting effect reads, which is also its dependency
\* list: the four sets in NodeLinkPane, the two node sets in KSnakesPane.
HighlightDeps(p, v) ==
    IF PaneKind[p] = "NodeLink"
    THEN v
    ELSE [v EXCEPT !.hoveredEdges = {}, !.selectedEdges = {}]

\* The highlighting effect of pane p after a render with context value v:
\* it runs when a dependency changed, returns at once without a surface,
\* and otherwise restyles every element from the sets of that render.
HighlightEffect(p, v, old) ==
    IF HighlightDeps(p, v) # HighlightDeps(p, old) /\ svgRef[p]
    THEN HighlightDeps(p, v)
    ELSE styled[p]

RenderProvider ==
    /\ pending
    /\ cbNode' = IF NodeHighlightDeps(Store) # NodeHighlightDeps(value)
                 THEN [hoveredNodes |-> hoveredNodes,
                       selectedNodes |-> selectedNodes]
                 ELSE cbNode
    /\ cbEdge' = IF EdgeHighlightDeps(Store) # EdgeHighlightDeps(value)
                 THEN [hoveredEdges |-> hoveredEdges,
                       selectedEdges |-> selectedEdges]
                 ELSE cbEdge
    /\ value' = Store
    /\ paneCtx' = Provide(value', paneCtx)
    /\ styled' = [p \in Panes |-> HighlightEffect(p, paneCtx'[p], paneCtx[p])]
    /\ pending' = FALSE
    /\ batch' = 0
    /\ UNCHANGED <<storeVars, svgRef, zoomVars, viewVars, simVars,
                   netVars, buildVars, appVars, hookVars, furtherVars>>

(***************************************************************************)
(* Exact rational arithmetic for scales and translations.  A number is a   *)
(* record [n, d] in lowest terms with d > 0.  (The program computes in     *)
(* double precision; the model keeps the exact value.)                     *)
(***************************************************************************)
Abs(i) == IF i < 0 THEN -i ELSE i

RECURSIVE GCD(_, _)
GCD(a, b) == IF b = 0 THEN a ELSE GCD(b, a % b)

Rat(n, d) ==
    LET g == GCD(Abs(n), Abs(d))
        sgn == IF d < 0 THEN -1 ELSE 1
    IN [n |-> (sgn * n) \div g, d |-> (sgn * d) \div g]

RMul(a, b) ==
    LET g1 == GCD(Abs(a.n), b.d)
        g2 == GCD(Abs(b.n), a.d)
    IN Rat((a.n \div g1) * (b.n \div g2), (a.d \div g2) * (b.d \div g1))

RDiv(a, b) == RMul(a, Rat(b.d, b.n))

RAdd(a, b) ==
    LET g == GCD(a.d, b.d)
    IN Rat(a.n * (b.d \div g) + b.n * (a.d \div g), (a.d \div g) * b.d)

RSub(a, b) == RAdd(a, [n |-> -b.n, d |-> b.d])

RLess(a, b) ==
    LET g == GCD(a.d, b.d)
    IN a.n * (b.d \div g) < b.n * (a.d \div g)

RLeq(a, b) == ~RLess(b, a)
RMin(a, b) == IF RLess(b, a) THEN b ELSE a
RMax(a, b) == IF RLess(a, b) THEN b ELSE a

(***************************************************************************)
(* The viewport controller, useZoomPan, one instance per pane.             *)
(***************************************************************************)
\* d3.zoomIdentity
ZoomIdentity == [k |-> Rat(1, 1), x |-> Rat(0, 1), y |-> Rat(0, 1)]

\* DEFAULT_OPTIONS.zoomStep
ZoomStep == Rat(1, 4)

\* The scaleExtent each pane passes to useZoomPan: <<min, max>>.
ScaleExtent(p) ==
    IF PaneKind[p] = "NodeLink"
    THEN <<Rat(1, 10), Rat(4, 1)>>
    ELSE <<Rat(1, 2), Rat(4, 1)>>

\* d3.zoom().scaleExtent(config.scaleExtent): every scale the behaviour
\* computes for a scaleBy/scaleTo or a gesture is clamped to the extent.
ClampScaleMinOnly(p, k) == RMax(ScaleExtent(p)[1], k)
ClampScale(p, k) ==
    RMax(ScaleExtent(p)[1], RMin(ScaleExtent(p)[2], k))

\* The centre of the surface, the anchor of a scaleBy given no point.
Centroid(p) ==
    <<Rat(viewBox[p].width, 2), Rat(viewBox[p].height, 2)>>

\* zoom.scaleBy(selection, factor) on an element whose __zoom is t0: the
\* scale is multiplied and clamped, and the translation keeps the content
\* point under the surface centre in place.  config.translateExtent is null
\* in every pane, so the behaviour's translate constraint changes nothing.
ScaleByAt(p, p0, t0, factor) ==
    LET p1 == <<RDiv(RSub(p0[1], t0.x), t0.k), RDiv(RSub(p0[2], t0.y), t0.k)>>
        k1 == ClampScale(p, RMul(t0.k, factor))
    IN [k |-> k1,
        x |-> RSub(p0[1], RMul(p1[1], k1)),
        y |-> RSub(p0[2], RMul(p1[2], k1))]

ScaleBy(p, t0, factor) == ScaleByAt(p, Centroid(p), t0, factor)

NoTransition == [op |-> "none"]

\* The factor zoomIn passes to scaleBy: 1 + config.zoomStep
ZoomInFactor == RAdd(Rat(1, 1), ZoomStep)
\* The factor zoomOut passes: 1 / (1 + config.zoomStep)
ZoomOutFactor == RDiv(Rat(1, 1), RAdd(Rat(1, 1), ZoomStep))

\* svg.transition().duration(...).call(zoom.scaleBy, factor): a transition
\* is created on the surface; nothing else happens until it starts.
ScheduleScaleBy(p, op, factor) ==
    /\ scheduled' =
          [scheduled EXCEPT ![p] = Append(@, [op |-> op, factor |-> factor])]
    /\ UNCHANGED <<elemZoom, transform, running>>

\* zoomIn(): returns at once without a surface; zoomBehaviorRef.current is
\* set by the first effect pass and never cleared.
zoomIn(p) ==
    IF ~svgRef[p]
    THEN UNCHANGED <<scheduled, elemZoom, transform, running>>
    ELSE ScheduleScaleBy(p, "zoomIn", ZoomInFactor)

zoomOut(p) ==
    IF ~svgRef[p]
    THEN UNCHANGED <<scheduled, elemZoom, transform, running>>
    ELSE ScheduleScaleBy(p, "zoomOut", ZoomOutFactor)

\* svg.transition().duration(...).call(zoom.transform, target)
ScheduleTransform(p, op, target) ==
    /\ scheduled' =
          [scheduled EXCEPT ![p] = Append(@, [op |-> op, target |-> target])]
    /\ UNCHANGED <<elemZoom, transform, running>>

\* resetZoom(): returns at once without a surface.
resetZoomKeepScale(p) ==
    IF ~svgRef[p]
    THEN UNCHANGED <<scheduled, elemZoom, transform, running>>
    ELSE ScheduleTransform(p, "resetZoom",
                           [ZoomIdentity EXCEPT !.k = elemZoom[p].k])
resetZoom(p) ==
    IF ~svgRef[p]
    THEN UNCHANGED <<scheduled, elemZoom, transform, running>>
    ELSE ScheduleTransform(p, "resetZoom", ZoomIdentity)

\* Bounds passed to fitToContent; NoBounds stands for a null argument.
NoBounds == [given |-> FALSE]
Bounds(x, y, w, h) ==
    [given |-> TRUE, x |-> x, y |-> y, width |-> w, height |-> h]

\* The guard of fitToContent after its surface check: no bounds, or a
\* surface or bounds of zero width or height.
DegenerateFit(rect, bounds) ==
    \/ ~bounds.given
    \/ rect.width = 0
    \/ rect.height = 0
    \/ bounds.width = 0
    \/ bounds.height = 0

\* The transform fitToContent builds:
\* d3.zoomIdentity.translate(translateX, translateY).scale(scale)
FitTransformNoPadding(p, rect, bounds, padding) ==
    LET scale == RMin(RMin(Rat(rect.width, bounds.width),
                           Rat(rect.height, bounds.height)),
                      ScaleExtent(p)[2])
        centerX == RAdd(Rat(bounds.x, 1), Rat(bounds.width, 2))
        centerY == RAdd(Rat(bounds.y, 1), Rat(bounds.height, 2))
    IN [k |-> scale,
        x |-> RSub(Rat(rect.width, 2), RMul(scale, centerX)),
        y |-> RSub(Rat(rect.height, 2), RMul(scale, centerY))]
FitTransform(p, rect, bounds, padding) ==
    LET scale == RMin(RMin(Rat(rect.width - padding * 2, bounds.width),
                           Rat(rect.height - padding * 2, bounds.height)),
                      ScaleExtent(p)[2])
        centerX == RAdd(Rat(bounds.x, 1), Rat(bounds.width, 2))
        centerY == RAdd(Rat(bounds.y, 1), Rat(bounds.height, 2))
        translateX == RSub(Rat(rect.width, 2), RMul(scale, centerX))
        translateY == RSub(Rat(rect.height, 2), RMul(scale, centerY))
    IN [k |-> scale, x |-> translateX, y |-> translateY]

\* fitToContent(bounds, padding)
fitToContentAlways(p, bounds, padding) ==
    IF ~svgRef[p] \/ ~bounds.given
    THEN UNCHANGED <<scheduled, elemZoom, transform, running>>
    ELSE ScheduleTransform(p, "fitToContent",
             IF bounds.width = 0 \/ bounds.height = 0
             THEN ZoomIdentity
             ELSE FitTransform(p, clientRect[p], bounds, padding))
fitToContent(p, bounds, padding) ==
    IF ~svgRef[p] \/ DegenerateFit(clientRect[p], bounds)
    THEN UNCHANGED <<scheduled, elemZoom, transform, running>>
    ELSE ScheduleTransform(p, "fitToContent",
             FitTransform(p, clientRect[p], bounds, padding))

\* Whether the behaviour's filter lets an input event start a gesture.
\* "nodeLink" is the predicate NodeLinkPane installs; "default" is d3's own
\* (primary button, no ctrl key unless wheel), which the modelled events
\* pass.
FilterAllowsAll(filter, type, target) == TRUE
FilterAllows(filter, type, target) ==
    IF filter = "nodeLink"
    THEN type = "wheel" \/ target # "node"
    ELSE TRUE

\* An accepted gesture interrupts the element's transitions, created ones
\* included.
InterruptTransitions(p) ==
    /\ scheduled' = [scheduled EXCEPT ![p] = <<>>]
    /\ running' = [running EXCEPT ![p] = NoTransition]

\* A wheel event over target with the pointer at the surface centre
\* (d3-zoom's wheel listener): ignored without listeners, when the filter
\* rejects it, or when the clamped scale equals the current one.
wheeled(p, target, factor) ==
    IF \/ ~zoomBound[p]
       \/ ~FilterAllows(zoomFilter[p], "wheel", target)
       \/ ScaleBy(p, elemZoom[p], factor).k = elemZoom[p].k
    THEN UNCHANGED <<scheduled, elemZoom, transform, running>>
    ELSE /\ InterruptTransitions(p)
         /\ elemZoom' = [elemZoom EXCEPT ![p] = ScaleBy(p, @, factor)]
         /\ transform' = [transform EXCEPT ![p] = ScaleBy(p, elemZoom[p], factor)]

\* A mouse press on target, a move by dx and the release (d3-zoom's mouse
\* listeners): the translation follows the pointer, the scale stays.
mousedragged(p, target, dx) ==
    IF ~zoomBound[p] \/ ~FilterAllows(zoomFilter[p], "mousedown", target)
    THEN UNCHANGED <<scheduled, elemZoom, transform, running>>
    ELSE /\ InterruptTransitions(p)
         /\ elemZoom' = [elemZoom EXCEPT ![p].x = RAdd(@, Rat(dx, 1))]
         /\ transform' = [transform EXCEPT ![p] = elemZoom'[p]]

\* The transform a created transition will end at, evaluated when its tween
\* is initialised on an element whose __zoom is t0: scaleBy computes it from
\* t0; zoom.transform with a given transform (resetZoom, fitToContent) takes
\* it as it is, without applying scaleExtent.
TransitionTargetAt(p, p0, t0, tr) ==
    IF tr.op \in {"zoomIn", "zoomOut"}
    THEN ScaleByAt(p, p0, t0, tr.factor)
    ELSE tr.target

TransitionTarget(p, t0, tr) == TransitionTargetAt(p, Centroid(p), t0, tr)

\* The oldest created transition of pane p starts: it interrupts the
\* running one (the element keeps the transform of its last frame), and
\* its tween evaluates the target from the element's __zoom at this moment.
\* zoom.transform gave the element the identity as __zoom when it had none,
\* so this is defined also on a surface the behaviour is not applied to.
TransitionStart(p) ==
    /\ scheduled[p] # <<>>
    /\ scheduled' = [scheduled EXCEPT ![p] = Tail(@)]
    /\ LET tr == Head(scheduled[p])
       IN running' =
             [running EXCEPT ![p] =
                 [op |-> tr.op, from |-> elemZoom[p],
                  target |-> TransitionTarget(p, elemZoom[p], tr)]]
    /\ UNCHANGED <<elemZoom, transform>>

\* A frame of a transition between its start a and its target b: the view
\* centre and the scale both lie between those of a and b (the model takes
\* the midpoints; d3.interpolateZoom moves the scale geometrically when the
\* two view centres agree, as they do for scaleBy).
MidFrameAt(p0, a, b) ==
    LET ua == <<RDiv(RSub(p0[1], a.x), a.k), RDiv(RSub(p0[2], a.y), a.k)>>
        ub == <<RDiv(RSub(p0[1], b.x), b.k), RDiv(RSub(p0[2], b.y), b.k)>>
        u == <<RDiv(RAdd(ua[1], ub[1]), Rat(2, 1)),
               RDiv(RAdd(ua[2], ub[2]), Rat(2, 1))>>
        k == RDiv(RAdd(a.k, b.k), Rat(2, 1))
    IN [k |-> k,
        x |-> RSub(p0[1], RMul(u[1], k)),
        y |-> RSub(p0[2], RMul(u[2], k))]

MidFrame(p, a, b) == MidFrameAt(Centroid(p), a, b)

\* The running transition of pane p renders an intermediate frame: __zoom
\* is the frame and the "zoom" listener stores it with setTransform.
TransitionFrame(p) ==
    /\ running[p] # NoTransition
    /\ LET t == MidFrame(p, running[p].from, running[p].target)
       IN /\ t # elemZoom[p]
          /\ elemZoom[p] # running[p].target
          /\ elemZoom' = [elemZoom EXCEPT ![p] = t]
          /\ transform' = [transform EXCEPT ![p] = t]
    /\ UNCHANGED <<scheduled, running>>

\* The running transition of pane p reaches its end: __zoom is the target
\* and the "zoom" listener stores it with setTransform.
TransitionEndShared(p) ==
    /\ running[p] # NoTransition
    /\ elemZoom' = [elemZoom EXCEPT ![p] = running[p].target]
    /\ transform' = [q \in Panes |-> running[p].target]
    /\ running' = [running EXCEPT ![p] = NoTransition]
    /\ UNCHANGED scheduled
TransitionEnd(p) ==
    /\ running[p] # NoTransition
    /\ elemZoom' = [elemZoom EXCEPT ![p] = running[p].target]
    /\ transform' = [transform EXCEPT ![p] = running[p].target]
    /\ running' = [running EXCEPT ![p] = NoTransition]
    /\ UNCHANGED scheduled

\* Surface sizes the model draws a pane's container from.
SurfaceSizes ==
    {[width |-> 200, height |-> 200], [width |-> 300, height |-> 100]}

\* No viewport input yet.
NoStep == [kind |-> "none", pane |-> 0, arg |-> <<>>]

\* The filter in force after a pane's initialisation effect: NodeLinkPane
\* calls setFilter with its predicate when it builds a surface, KSnakesPane
\* never calls setFilter.
BuiltFilter(p, built, before) ==
    IF built /\ PaneKind[p] = "NodeLink" THEN "nodeLink" ELSE before

(***************************************************************************)
(* NetworkProvider                                                         *)
(***************************************************************************)
\* Identifiers of available networks (AVAILABLE_NETWORKS has nine; the first
\* is 'karate-club').
NetworkIds == {1, 2}

\* What a fetched nodelink.json can be: absent (the response was not ok), a
\* dataset without nodes, a dataset with nodes.
NodeLinkShapes == {"null", "empty", "nodes"}

\* networkData === null.
NoData == [id |-> 0, nodeLink |-> "null", kSnakes |-> FALSE]

NoNetStep == [kind |-> "none", id |-> 0, shown |-> NoData]

\* The network store in the specifications that do not drive it: after
\* mount, with ControlPanel's first load awaiting its fetches.
InitNetwork ==
    /\ currentNetworkId = 0
    /\ networkData = NoData
    /\ isLoading = TRUE
    /\ error = FALSE
    /\ loads = <<1>>
    /\ netStep = NoNetStep

(***************************************************************************)
(* NodeLinkPane's force simulation and node drag                           *)
(***************************************************************************)
\* null, as the value of a node's fx and fy.
Null == -1

\* Positions a node or the pointer can have.
Positions == {[x |-> 0, y |-> 1], [x |-> 1, y |-> 0]}

\* The nodes of a dataset.
SimNodes == {1, 2}

\* Values of the data prop: null (0) and two datasets.
DataIds == {0, 1, 2}

\* d3.forceSimulation(nodes) for the nodes of dataset d placed at pos: its
\* timer runs, its alpha target is 0, no node is fixed, no drag gesture is
\* active.  torn records that the effect cleanup of its build has run.
NewSimulation(d, pos) ==
    [dataset |-> d,
     timer |-> TRUE,
     alphaTarget |-> "0",
     torn |-> FALSE,
     nodes |-> [n \in SimNodes |->
                   [x |-> pos[n].x, y |-> pos[n].y, fx |-> Null, fy |-> Null]],
     active |-> {}]

\* simulation.stop(), as the initialisation effect's cleanup calls it on the
\* simulation of its build.
StopSimulation(sim) == [sim EXCEPT !.timer = FALSE, !.torn = TRUE]

\* simulation.restart(): the timer runs again.
RestartSimulation(sim) == [sim EXCEPT !.timer = TRUE]

\* The simulations after the cleanup of the last effect run that built one.
AfterCleanup ==
    IF cleanupSim = 0 THEN sims
    ELSE [sims EXCEPT ![cleanupSim] = StopSimulation(@)]

\* One tick of d3-force on a node: a fixed node is put at (fx, fy), a free
\* one moves to where the forces take it (to).
TickNode(node, to) ==
    [node EXCEPT !.x = IF node.fx = Null THEN to.x ELSE node.fx,
                 !.y = IF node.fy = Null THEN to.y ELSE node.fy]

\* dragstarted on node n of generation g: with no other gesture active the
\* simulation is given alpha target 0.3 and restarted; the node is fixed
\* where it is.
dragstartedPinXOnly(g, n) ==
    LET sim == sims[g]
        heated == IF sim.active = {}
                  THEN [RestartSimulation(sim) EXCEPT !.alphaTarget = "0.3"]
                  ELSE sim
    IN [heated EXCEPT !.nodes[n].fx = sim.nodes[n].x,
                      !.active = @ \cup {n}]
dragstarted(g, n) ==
    LET sim == sims[g]
        heated == IF sim.active = {}
                  THEN [RestartSimulation(sim) EXCEPT !.alphaTarget = "0.3"]
                  ELSE sim
    IN [heated EXCEPT !.nodes[n].fx = sim.nodes[n].x,
                      !.nodes[n].fy = sim.nodes[n].y,
                      !.active = @ \cup {n}]

\* dragged: the node is fixed at the pointer.
dragged(g, n, pointer) ==
    [sims[g] EXCEPT !.nodes[n].fx = pointer.x, !.nodes[n].fy = pointer.y]

\* dragended: with no other gesture left the alpha target returns to 0; the
\* node is released.
dragendedAlwaysCools(g, n) ==
    [sims[g] EXCEPT !.alphaTarget = "0",
                    !.nodes[n].fx = Null,
                    !.nodes[n].fy = Null,
                    !.active = @ \ {n}]
dragended(g, n) ==
    LET sim == sims[g]
        cooled == IF sim.active \ {n} = {}
                  THEN [sim EXCEPT !.alphaTarget = "0"]
                  ELSE sim
    IN [cooled EXCEPT !.nodes[n].fx = Null,
                      !.nodes[n].fy = Null,
                      !.active = @ \ {n}]

\* A simulation nothing can reach any more: its build was cleaned up, its
\* timer is stopped, no gesture holds one of its nodes and its elements are
\* out of the document (r is the generation in the document).
Unreachable(ss, g, r) ==
    g # r /\ ss[g].torn /\ ~ss[g].timer /\ ss[g].active = {}

\* What is kept of the simulations: the positions of nodes whose elements
\* are out of the document show nowhere and are not told apart (a node is
\* still known to be fixed or free), nor is anything else of an unreachable
\* simulation; the dataset is kept of the simulation in the document and of
\* the latest one, which simulationRef holds.
Collect(ss, r) ==
    [g \in DOMAIN ss |->
        IF g = r THEN ss[g]
        ELSE [ss[g] EXCEPT
                 !.dataset = IF g = Len(ss) THEN @ ELSE 0,
                 !.alphaTarget = IF Unreachable(ss, g, r) THEN "0" ELSE @,
                 !.nodes = [n \in SimNodes |->
                               IF ss[g].nodes[n].fx = Null
                               THEN [x |-> 0, y |-> 1,
                                     fx |-> Null, fy |-> Null]
                               ELSE [x |-> 0, y |-> 1, fx |-> 0, fy |-> 1]]]]

NoSimStep == [kind |-> "none", gen |-> 0, node |-> 0]

(***************************************************************************)
(* A pane's container, listeners and focus                                 *)
(***************************************************************************)
\* The data prop of pane p when the network data is nd: networkData?.nodeLink
\* for a node-link pane and networkData?.kSnakes for the k-snakes pane, as
\* the shape of the dataset ("null" for null or undefined).
AppShape(p, nd) ==
    IF PaneKind[p] = "NodeLink" THEN nd.nodeLink
    ELSE IF nd.kSnakes THEN "nodes" ELSE "null"

\* isEmpty={!data}: Pane renders the empty state in place of its children.
IsEmptyNever(shape) == FALSE
IsEmpty(shape) == shape = "null"

\* The keyboard effect: it returns without a container, and otherwise adds
\* the keydown listener to it.
KeyboardEffect(container) == IF container THEN {"keydown"} ELSE {}

\* NodeLinkPane's resize effect: it returns unless the container, the
\* surface and the simulation all exist, and otherwise observes the
\* container.
ResizeEffect(p, container, svg, simulation) ==
    IF PaneKind[p] = "NodeLink" /\ container /\ svg /\ simulation
    THEN {"resize"}
    ELSE {}

NoAppStep == [kind |-> "none", pane |-> 0, prevented |-> FALSE,
              stopped |-> FALSE]

\* The panes at mount: networkData is null, so every pane renders its empty
\* state and no container exists when the keyboard and resize effects run;
\* their dependencies never change, so they do not run again.
InitPaneState ==
    /\ containerRef = [p \in Panes |-> FALSE]
    /\ lastBuilt = [p \in Panes |-> "null"]
    /\ listeners = [p \in Panes |->
                       KeyboardEffect(FALSE)
                           \cup ResizeEffect(p, FALSE, FALSE, FALSE)]
    /\ activeElement = 0
    /\ appStep = NoAppStep

(***************************************************************************)
(* useSelection and useNetwork                                             *)
(***************************************************************************)
\* createContext(null): what useContext returns with no provider above.
NullContext == [null |-> TRUE]

\* useContext(Context) in a component with (within) or without a provider
\* of that context above it.
UseContext(within, provided) == IF within THEN provided ELSE NullContext

\* if (!context) throw new Error('... must be used within a ...Provider')
ThrowsNever(context) == FALSE
ThrowsWithout(context) == context = NullContext

\* The body of both hooks: the context is returned unless the guard threw;
\* same records that what is returned is the value the provider gave.
UseHook(hook, within, provided) ==
    LET context == UseContext(within, provided)
    IN  IF ThrowsWithout(context)
        THEN [hook |-> hook, within |-> within, outcome |-> "threw",
              same |-> FALSE]
        ELSE [hook |-> hook, within |-> within, outcome |-> "returned",
              same |-> context = provided]

NoHookCall == [hook |-> "none", within |-> FALSE, outcome |-> "none",
               same |-> FALSE]

InitHooks == hookResult = NoHookCall

(***************************************************************************)
(* Double-precision scales.  The viewport sections above keep the exact    *)
(* value of a scale; here a scale is the double the program holds: a       *)
(* record [m, e] standing for m * 2^e, where m is a natural number of      *)
(* exactly 53 bits, kept as four limbs of 14 bits, least significant       *)
(* first.  Every operation is rounded to nearest, ties to even, as ECMAScript *)
(* Number arithmetic is.                                                   *)
(***************************************************************************)
Limb == 2^14

Get(a, i) == IF i \in 1..Len(a) THEN a[i] ELSE 0

RECURSIVE BitsOf(_)
BitsOf(v) == IF v = 0 THEN 0 ELSE 1 + BitsOf(v \div 2)

\* The number of bits of the natural number a.
BitLen(a) ==
    LET used == {i \in 1..Len(a) : a[i] # 0}
    IN IF used = {} THEN 0
       ELSE LET top == CHOOSE i \in used : \A j \in used : j <= i
            IN (top - 1) * 14 + BitsOf(a[top])

\* Bit i of a, and whether the bits below bit n are all zero.
Bit(a, i) == (Get(a, (i \div 14) + 1) \div 2^(i % 14)) % 2
LowZero(a, n) ==
    /\ \A i \in 1..(n \div 14) : Get(a, i) = 0
    /\ Get(a, (n \div 14) + 1) % 2^(n % 14) = 0

\* Carries propagated through columns that may exceed a limb.
RECURSIVE Carried(_, _, _)
Carried(cols, i, c) ==
    IF i > Len(cols) THEN <<>>
    ELSE <<(cols[i] + c) % Limb>> \o Carried(cols, i + 1, (cols[i] + c) \div Limb)

RECURSIVE ColSum(_, _, _, _)
ColSum(a, b, k, i) ==
    IF i > Len(a) THEN 0
    ELSE (IF (k - i + 1) \in 1..Len(b) THEN a[i] * b[k - i + 1] ELSE 0)
         + ColSum(a, b, k, i + 1)

\* The product of two natural numbers.
BigMul(a, b) ==
    Carried([k \in 1..(Len(a) + Len(b)) |-> ColSum(a, b, k, 1)], 1, 0)

\* Quotient and remainder of a by a small divisor d, from limb i down.
RECURSIVE BigDiv(_, _, _, _)
BigDiv(a, d, i, rem) ==
    IF i = 0 THEN [q |-> <<>>, r |-> rem]
    ELSE LET v == rem * Limb + a[i]
             rest == BigDiv(a, d, i - 1, v % d)
         IN [q |-> Append(rest.q, v \div d), r |-> rest.r]

\* a + 1, in four limbs.
Inc(a) == Carried([i \in 1..4 |-> Get(a, i) + (IF i = 1 THEN 1 ELSE 0)], 1, 0)

\* The 53 bits of a from bit s up.
Shr(a, s) ==
    [j \in 1..4 |->
        LET pos == s + 14 * (j - 1)
            li == (pos \div 14) + 1
            r == pos % 14
        IN IF j = 4
           THEN ((Get(a, li) \div 2^r)
                 + (Get(a, li + 1) % 2^r) * 2^(14 - r)) % 2^11
           ELSE (Get(a, li) \div 2^r) + (Get(a, li + 1) % 2^r) * 2^(14 - r)]

\* The double nearest to (a + f) * 2^e, ties to even, for a natural number
\* a of more than 53 bits and a fraction f < 1 that is 0 or (inexact) not.
RoundToDouble(a, e, inexact) ==
    LET s == BitLen(a) - 53
        q == Shr(a, s)
        more == inexact \/ ~LowZero(a, s - 1)
        up == Bit(a, s - 1) = 1 /\ (more \/ Bit(a, s) = 1)
        q1 == IF up THEN Inc(q) ELSE q
    IN IF BitLen(q1) = 54
       THEN [m |-> <<0, 0, 0, 2^10>>, e |-> e + s + 1]
       ELSE [m |-> q1, e |-> e + s]

\* The double nearest to n / d, which is what a numeric literal and a
\* division of two doubles holding n and d exactly evaluate to.
ToDouble(n, d) ==
    LET div == BigDiv(<<0, 0, 0, 0, 0, n>>, d, 6, 0)
    IN RoundToDouble(div.q, -70, div.r # 0)

\* x * y in double precision.
DoubleMul(x, y) == RoundToDouble(BigMul(x.m, y.m), x.e + y.e, FALSE)

DoubleLess(x, y) ==
    \/ x.e < y.e
    \/ /\ x.e = y.e
       /\ \E i \in 1..4 : x.m[i] < y.m[i] /\ \A j \in (i + 1)..4 : x.m[j] = y.m[j]

\* Math.min and Math.max
DoubleMin(x, y) == IF DoubleLess(y, x) THEN y ELSE x
DoubleMax(x, y) == IF DoubleLess(x, y) THEN y ELSE x

\* The next double above x, and whether x and y are neighbours.
NextUp(x) ==
    IF BitLen(Inc(x.m)) = 54
    THEN [m |-> <<0, 0, 0, 2^10>>, e |-> x.e + 1]
    ELSE [m |-> Inc(x.m), e |-> x.e]
Neighbours(x, y) == y = NextUp(x) \/ x = NextUp(y)

\* scale(transform, k) of d3-zoom:
\* Math.max(scaleExtent[0], Math.min(scaleExtent[1], k))
DoubleClamp(p, k) ==
    DoubleMax(ToDouble(ScaleExtent(p)[1].n, ScaleExtent(p)[1].d),
              DoubleMin(ToDouble(ScaleExtent(p)[2].n, ScaleExtent(p)[2].d), k))

\* 1 + config.zoomStep, which is exact, and 1 / (1 + config.zoomStep).
DoubleZoomOutFactorOneMinusStep ==
    ToDouble(RSub(Rat(1, 1), ZoomStep).n, RSub(Rat(1, 1), ZoomStep).d)
DoubleZoomInFactor == ToDouble(ZoomInFactor.n, ZoomInFactor.d)
DoubleZoomOutFactor == ToDouble(ZoomOutFactor.n, ZoomOutFactor.d)

\* A zoomIn or zoomOut call on a built surface, allowed to complete: the
\* transition's target is scaleBy's k0 * factor, clamped, computed from the
\* element's scale when the transition starts, and the last frame of the
\* transition (t = 1) stores that target itself.  calls is kept of the
\* last two calls: the scale each started from and whether the extent
\* limited it.
DoubleScaleBy(p, z, op, factor) ==
    LET raw == DoubleMul(z.k, factor)
        k1 == DoubleClamp(p, raw)
        call == [op |-> op, from |-> z.k, limited |-> k1 # raw]
    IN [k |-> k1,
        calls |-> IF z.calls = <<>> THEN <<call>>
                  ELSE <<z.calls[Len(z.calls)], call>>,
        count |-> z.count + 1]

\* The pointer over no element of a pane.
NoElement == [pane |-> 0, kind |-> "none", idx |-> 0]

(***************************************************************************)
(* HopCensusPane, as a component given its data prop by its parent.        *)
(* (PaneLayout does not mount it.)  Its viewport is not followed here.     *)
(***************************************************************************)
\* Before mount.  data is the data prop (0 for null), area whether the
\* container has a size other than zero, observer whether a ResizeObserver
\* observes the container, notify whether a notification of it is due,
\* shown the dataset whose census lines are in the document (0 for none),
\* handlers whether those lines carry the mouseenter, mouseleave and click
\* listeners.
NoCensus ==
    [data |-> 0, area |-> TRUE, observer |-> FALSE, notify |-> FALSE,
     shown |-> 0, handlers |-> FALSE]

\* What initializeVisualization() leaves in the document for data prop d:
\* it returns without container or data or with a container of zero size,
\* and otherwise empties the container and draws the lines.
initializeVisualization(c, d, before) ==
    IF d # 0 /\ c.area THEN d ELSE before

\* The handler effect: it attaches the listeners to the lines svgRef holds.
HandlerEffect(shown) == shown # 0

\* The commit of the pane with data prop d (mount, or the prop changed).
\* Pane renders the container iff the data is not null.  The effects run in
\* the order of their declaration: the resize effect disconnects the
\* observer of its last run and observes the container with a new one,
\* which is due a first notification when the container has a size; the
\* initialisation effect calls initializeVisualization(); the handler
\* effect attaches the listeners.
CensusCommit(c, d) ==
    LET shown == IF d = 0 THEN 0 ELSE initializeVisualization(c, d, c.shown)
    IN [data |-> d,
        area |-> c.area,
        observer |-> d # 0,
        notify |-> d # 0 /\ c.area,
        shown |-> shown,
        handlers |-> HandlerEffect(shown)]

\* The ResizeObserver callback: it empties the container and, with
\* container and data, calls initializeVisualization().  No effect runs.
CensusResizeCallback(c) ==
    [c EXCEPT !.notify = FALSE,
              !.shown = initializeVisualization(c, c.data, 0),
              !.handlers = FALSE]

\* d3.zoomIdentity's scale, 1, before any call; ControlPanel's first load is
\* the latest one; the pointer is over no element.
(***************************************************************************)
(* Fit to content of a node layout                                         *)
(***************************************************************************)

\* const padding = 20 of handleFitContent
FitPadding == 20

\* d3.min and d3.max of a non-empty set of numbers.
d3min(S) == CHOOSE m \in S : \A n \in S : m <= n
d3max(S) == CHOOSE m \in S : \A n \in S : n <= m

\* The bounds handleFitContent computes from simulation.nodes(): the box of
\* the node positions, widened by the padding on every side.
nodeBoundsShrunk(nodes) ==
    LET xs == {nodes[i].x : i \in DOMAIN nodes}
        ys == {nodes[i].y : i \in DOMAIN nodes}
    IN Bounds(d3min(xs) + FitPadding, d3min(ys) + FitPadding,
              (d3max(xs) - d3min(xs)) - FitPadding * 2,
              (d3max(ys) - d3min(ys)) - FitPadding * 2)
nodeBounds(nodes) ==
    LET xs == {nodes[i].x : i \in DOMAIN nodes}
        ys == {nodes[i].y : i \in DOMAIN nodes}
    IN Bounds(d3min(xs) - FitPadding, d3min(ys) - FitPadding,
              (d3max(xs) - d3min(xs)) + FitPadding * 2,
              (d3max(ys) - d3min(ys)) + FitPadding * 2)

\* Where the zoom container's transform attribute puts a point of the
\* layout: translate(x, y) scale(k).
ApplyTransform(t, point) ==
    [x |-> RAdd(RMul(t.k, Rat(point.x, 1)), t.x),
     y |-> RAdd(RMul(t.k, Rat(point.y, 1)), t.y)]

\* A node-link pane before it has data: no simulation nodes, no surface; the
\* transform is that of the last fit once its transition has ended.
NoFit ==
    [nodes |-> <<>>, rect |-> [width |-> 0, height |-> 0], phase |-> "idle",
     changed |-> FALSE, transform |-> ZoomIdentity]

(***************************************************************************)
(* Node and edge records as objects: the dataset's and each pane's copies  *)
(***************************************************************************)
NodeLinkPanes == {p \in Panes : PaneKind[p] = "NodeLink"}

\* A node record of the dataset, and an edge record whose source and target
\* are node identifiers until a forceLink replaces them by node objects.
NodeRecord(idx) ==
    [kind |-> "node", idx |-> idx, x |-> Null, y |-> Null, fx |-> Null,
     fy |-> Null, source |-> Null, target |-> Null, linked |-> FALSE]
EdgeRecord(idx, source, target) ==
    [kind |-> "edge", idx |-> idx, x |-> Null, y |-> Null, fx |-> Null,
     fy |-> Null, source |-> source, target |-> target, linked |-> FALSE]

\* data.nodes.map(d => ({ ...d })): a new object for each record of the
\* array refs, with the record's own properties; objs are the objects there
\* are, refs name objects by their place in objs.
mapSpreadSameObjects(objs, refs) == [objs |-> objs, refs |-> refs]
mapSpread(objs, refs) ==
    [objs |-> objs \o [i \in 1..Len(refs) |-> objs[refs[i]]],
     refs |-> [i \in 1..Len(refs) |-> Len(objs) + i]]

\* x: Math.random() * width, y: Math.random() * height in the object literal
\* of each node: pos[i] is where the i-th node of refs is put.
Place(objs, refs, pos) ==
    [o \in DOMAIN objs |->
        IF \E i \in DOMAIN refs : refs[i] = o
        THEN LET i == CHOOSE i \in DOMAIN refs : refs[i] = o
             IN [objs[o] EXCEPT !.x = pos[i].x, !.y = pos[i].y]
        ELSE objs[o]]

\* d3.forceLink(edges).id(d => d.node_idx), initialised with the nodes of
\* the simulation: a source or target that is not yet an object is replaced
\* by the node of that identifier.
forceLink(objs, nodes, edges) ==
    LET find(id) ==
            nodes[CHOOSE i \in DOMAIN nodes : objs[nodes[i]].idx = id]
    IN [o \in DOMAIN objs |->
           IF (\E i \in DOMAIN edges : edges[i] = o) /\ ~objs[o].linked
           THEN [objs[o] EXCEPT !.source = find(@), !.target = find(@),
                                !.linked = TRUE]
           ELSE objs[o]]

\* The arrays of a pane that has built no simulation, and the objects
\* before a dataset is loaded; drag is the node the pointer is dragging.
NoArrays == [built |-> FALSE, nodes |-> <<>>, edges |-> <<>>]
NoDrag == [pane |-> 0, node |-> 0]
NoHeap ==
    [objs |-> <<>>, nodes |-> <<>>, edges |-> <<>>,
     pane |-> [p \in NodeLinkPanes |-> NoArrays], drag |-> NoDrag,
     step |-> [kind |-> "none", pane |-> 0]]

InitFurther ==
    /\ fz = [k |-> ToDouble(1, 1), calls |-> <<>>, count |-> 0]
    /\ latest = [id |-> 1, outcome |-> "pending"]
    /\ pointerOver = NoElement
    /\ census = CensusCommit(NoCensus, 0)
    /\ fit = NoFit
    /\ heap = NoHeap

(***************************************************************************)
(* Building the simulation's nodes and edges from a dataset                *)
(***************************************************************************)
\* The node_idx values datasets use.
BuildIds == {1, 2}

\* The longest edge list.
MaxBuildEdges == 2

\* data.nodes, as the list of its node_idx values.
NodeLists == {<<>>, <<1>>, <<2>>, <<1, 2>>}

\* data.edges: edge i carries edge_idx i and the node_idx of its two ends.
EdgeLists ==
    UNION {{[i \in 1..n |-> [edge_idx |-> i, source |-> f[i][1],
                             target |-> f[i][2]]] :
               f \in [1..n -> BuildIds \X BuildIds]} : n \in 0..MaxBuildEdges}

BuildInputs == [nodes : NodeLists, edges : EdgeLists]

\* No build has run.
NoBuild == [status |-> "none", nodes |-> <<>>, edges |-> <<>>,
            reported |-> {}]

\* The default accessor of d3.forceLink: a node's index in the array.
LinkIdByIndex(d, i) == i - 1
\* .id(d => d.node_idx): the key forceLink looks a node up by.
LinkId(d, i) == d.node_idx

\* forceLink's nodeById map, from key to the position of the node in the
\* array; of two nodes with one key the Map keeps the later.
nodeById(nodes) ==
    [k \in {LinkId(nodes[i], i) : i \in DOMAIN nodes} |->
        CHOOSE i \in DOMAIN nodes :
            /\ LinkId(nodes[i], i) = k
            /\ \A j \in DOMAIN nodes : LinkId(nodes[j], j) = k => j <= i]

\* find(nodeById, nodeId) returns a node; it throws for a key not in the map.
FindThrows(map, nodeId) == nodeId \notin DOMAIN map

\* simulation.force('link', forceLink(edges).id(...)): forceLink's
\* initialize replaces every edge's source and target by the node found for
\* it.  It throws at the first edge with an end that is not found; the
\* exception leaves the effect, nothing is drawn and nothing is written to
\* the console by the pane.
forceLinkInitialize(nodes, edges) ==
    LET map == nodeById(nodes)
    IN  IF \E i \in DOMAIN edges :
               FindThrows(map, edges[i].source)
                   \/ FindThrows(map, edges[i].target)
        THEN [status |-> "threw", nodes |-> nodes, edges |-> <<>>,
              reported |-> {}]
        ELSE [status |-> "built", nodes |-> nodes,
              edges |-> [i \in DOMAIN edges |->
                            [edge_idx |-> edges[i].edge_idx,
                             source |-> nodes[map[edges[i].source]],
                             target |-> nodes[map[edges[i].target]]]],
              reported |-> {}]

\* The preparation of nodes and edges in the initialisation effect: every
\* node is cloned and placed at a random position, every edge is cloned, and
\* the simulation is created with its link force.
BuildSimulation(input, pos) ==
    forceLinkInitialize(
        [i \in DOMAIN input.nodes |->
            [node_idx |-> input.nodes[i], x |-> pos[i].x, y |-> pos[i].y]],
        input.edges)

\* The build state in the specifications that do not drive it.
InitBuild ==
    /\ buildInput = [nodes |-> <<>>, edges |-> <<>>]
    /\ buildResult = NoBuild
    /\ prevResult = NoBuild

\* The node-link pane's simulation state in the specifications that do not
\* drive it: no data, nothing built.
InitSimulation ==
    /\ sims = <<>>
    /\ simulationRef = 0
    /\ rendered = 0
    /\ data = 0
    /\ containerArea = TRUE
    /\ mounted = TRUE
    /\ cleanupSim = 0
    /\ resizeObserved = 0
    /\ simStep = NoSimStep

\* What the panes hold besides the transforms before any viewport input: the
\* filter d3 starts with, or NodeLinkPane's once it has built a surface; no
\* listeners on a surface yet; no replaced surface.  A surface's client
\* rectangle is the size it was built with until its container is resized.
InitSurface ==
    /\ clientRect = viewBox
    /\ zoomBound = [p \in Panes |-> FALSE]
    /\ filterFnRef = [p \in Panes |-> BuiltFilter(p, svgRef[p], "none")]
    /\ zoomFilter = [p \in Panes |-> BuiltFilter(p, svgRef[p], "default")]
    /\ detached = [p \in Panes |-> <<>>]
    /\ step = NoStep
    /\ viewOps = 0

InitViewport ==
    /\ subject = 1
    /\ viewBox = [p \in Panes |-> [width |-> 200, height |-> 200]]
    /\ InitSurface
    /\ InitSimulation
    /\ InitNetwork
    /\ InitBuild
    /\ InitPaneState
    /\ InitHooks
    /\ InitFurther
    /\ frames = 0
    /\ elemZoom = [p \in Panes |-> ZoomIdentity]
    /\ transform = [p \in Panes |-> ZoomIdentity]
    /\ scheduled = [p \in Panes |-> <<>>]
    /\ running = [p \in Panes |-> NoTransition]
    /\ zoomCalls = 0

NoOp == [name |-> "none", arg |-> <<>>]

InitStore ==
    /\ hoveredNodes = {}
    /\ hoveredEdges = {}
    /\ selectedNodes = {}
    /\ selectedEdges = {}
    /\ pending = FALSE
    /\ value = EmptyStore
    /\ cbNode = [hoveredNodes |-> {}, selectedNodes |-> {}]
    /\ cbEdge = [hoveredEdges |-> {}, selectedEdges |-> {}]
    /\ paneCtx = [p \in Panes |-> EmptyStore]
    /\ styled = [p \in Panes |-> EmptyStore]
    /\ batch = 0
    /\ lastOp = NoOp
    /\ prevStore = EmptyStore
    /\ twice = FALSE
    /\ prev2Store = EmptyStore

\* The panes just mounted, before any dataset has arrived.
Init ==
    /\ InitStore
    /\ svgRef = [p \in Panes |-> FALSE]
    /\ InitViewport

(***************************************************************************)
(* SpecStore: the store called operation by operation, as its public       *)
(* contract allows, with the history of the last call recorded.            *)
(***************************************************************************)
Call(op, name, arg) ==
    /\ op
    /\ lastOp' = [name |-> name, arg |-> arg]
    /\ prevStore' = Store
    /\ twice' = (lastOp = [name |-> name, arg |-> arg])
    /\ prev2Store' = IF twice' THEN prevStore ELSE Store
    /\ UNCHANGED <<renderVars, svgRef, batch, zoomVars, viewVars, simVars,
                   netVars, buildVars, appVars, hookVars, furtherVars>>

CallHoverNode == \E i \in NodeIds : Call(hoverNode(i), "hoverNode", <<i>>)
CallHoverNodes ==
    \E a \in IdArrays(NodeIds) : Call(hoverNodes(a), "hoverNodes", a)
CallClearHoveredNodes == Call(clearHoveredNodes, "clearHoveredNodes", <<>>)
CallHoverEdge == \E i \in EdgeIds : Call(hoverEdge(i), "hoverEdge", <<i>>)
CallHoverEdges ==
    \E a \in IdArrays(EdgeIds) : Call(hoverEdges(a), "hoverEdges", a)
CallClearHoveredEdges == Call(clearHoveredEdges, "clearHoveredEdges", <<>>)
CallClearHover == Call(clearHover, "clearHover", <<>>)
CallToggleNodeSelection ==
    \E i \in NodeIds : Call(toggleNodeSelection(i), "toggleNodeSelection", <<i>>)
CallSelectNodes ==
    \E a \in IdArrays(NodeIds) : Call(selectNodes(a), "selectNodes", a)
CallDeselectNodes ==
    \E a \in IdArrays(NodeIds) : Call(deselectNodes(a), "deselectNodes", a)
CallClearSelectedNodes == Call(clearSelectedNodes, "clearSelectedNodes", <<>>)
CallToggleEdgeSelection ==
    \E i \in EdgeIds : Call(toggleEdgeSelection(i), "toggleEdgeSelection", <<i>>)
CallSelectEdges ==
    \E a \in IdArrays(EdgeIds) : Call(selectEdges(a), "selectEdges", a)
CallDeselectEdges ==
    \E a \in IdArrays(EdgeIds) : Call(deselectEdges(a), "deselectEdges", a)
CallClearSelectedEdges == Call(clearSelectedEdges, "clearSelectedEdges", <<>>)
CallClearAllSelections == Call(clearAllSelections, "clearAllSelections", <<>>)

NextStore ==
    \/ CallHoverNode
    \/ CallHoverNodes
    \/ CallClearHoveredNodes
    \/ CallHoverEdge
    \/ CallHoverEdges
    \/ CallClearHoveredEdges
    \/ CallClearHover
    \/ CallToggleNodeSelection
    \/ CallSelectNodes
    \/ CallDeselectNodes
    \/ CallClearSelectedNodes
    \/ CallToggleEdgeSelection
    \/ CallSelectEdges
    \/ CallDeselectEdges
    \/ CallClearSelectedEdges
    \/ CallClearAllSelections

SpecStore == Init /\ [][NextStore]_vars

(***************************************************************************)
(* Properties of the store operations, checked under SpecStore.            *)
(***************************************************************************)
Arg1 == lastOp.arg[1]

\* C1: calling toggleNodeSelection(i) twice in succession (resp.
\* toggleEdgeSelection(i)) leaves the selected set as it was before the
\* first of the two calls.
C1_ToggleInvolution ==
    /\ (twice /\ lastOp.name = "toggleNodeSelection")
          => selectedNodes = prev2Store.selectedNodes
    /\ (twice /\ lastOp.name = "toggleEdgeSelection")
          => selectedEdges = prev2Store.selectedEdges

C1_Witness ==
    /\ twice
    /\ lastOp = [name |-> "toggleNodeSelection", arg |-> <<1>>]
    /\ prev2Store.selectedNodes = {2}
    /\ prevStore.selectedNodes = {1, 2}

\* C2: a hover call replaces the hovered set wholesale: after the call the
\* hovered-node (resp. hovered-edge) set is exactly the identifiers passed,
\* whatever it held before.
C2_HoverReplaces ==
    /\ lastOp.name \in {"hoverNode", "hoverNodes"}
          => hoveredNodes = NewSet(lastOp.arg)
    /\ lastOp.name \in {"hoverEdge", "hoverEdges"}
          => hoveredEdges = NewSet(lastOp.arg)

C2_Witness ==
    /\ lastOp = [name |-> "hoverNodes", arg |-> <<1>>]
    /\ prevStore.hoveredNodes = {1, 2}
    /\ hoveredNodes = {1}

\* C4 as stated: both a hover call with an empty collection and clearHover()
\* leave the hovered-node set and the hovered-edge set empty.
C4_EmptyHoverClearsBoth ==
    (\/ lastOp = [name |-> "hoverNodes", arg |-> <<>>]
     \/ lastOp = [name |-> "hoverEdges", arg |-> <<>>]
     \/ lastOp.name = "clearHover")
        => (hoveredNodes = {} /\ hoveredEdges = {})

\* C4 amended: clearHover() leaves both hovered sets empty; hoverNodes([])
\* empties the hovered-node set only and hoverEdges([]) the hovered-edge set
\* only, the other hovered set keeping its content.
C4_ClearHoverClearsBoth ==
    /\ lastOp.name = "clearHover"
          => (hoveredNodes = {} /\ hoveredEdges = {})
    /\ lastOp = [name |-> "hoverNodes", arg |-> <<>>]
          => (hoveredNodes = {} /\ hoveredEdges = prevStore.hoveredEdges)
    /\ lastOp = [name |-> "hoverEdges", arg |-> <<>>]
          => (hoveredEdges = {} /\ hoveredNodes = prevStore.hoveredNodes)

C4_Witness ==
    /\ lastOp.name = "clearHover"
    /\ prevStore.hoveredNodes # {}
    /\ prevStore.hoveredEdges # {}

\* C5: a toggle always changes the selected set: the membership of i is
\* flipped and no other identifier is added or removed.
C5_ToggleFlipsExactlyOne ==
    /\ lastOp.name = "toggleNodeSelection"
          => /\ selectedNodes # prevStore.selectedNodes
             /\ (Arg1 \in selectedNodes) <=> (Arg1 \notin prevStore.selectedNodes)
             /\ selectedNodes \ {Arg1} = prevStore.selectedNodes \ {Arg1}
             /\ selectedEdges = prevStore.selectedEdges
    /\ lastOp.name = "toggleEdgeSelection"
          => /\ selectedEdges # prevStore.selectedEdges
             /\ (Arg1 \in selectedEdges) <=> (Arg1 \notin prevStore.selectedEdges)
             /\ selectedEdges \ {Arg1} = prevStore.selectedEdges \ {Arg1}
             /\ selectedNodes = prevStore.selectedNodes

C5_Witness ==
    /\ lastOp = [name |-> "toggleNodeSelection", arg |-> <<1>>]
    /\ prevStore.selectedNodes = {1, 2}
    /\ selectedNodes = {2}

\* C6: select(ids) yields the old set union ids and deselect(ids) the old
\* set minus ids, and applying the same call a second time changes nothing.
C6_BulkSelectIdempotent ==
    /\ lastOp.name = "selectNodes"
          => selectedNodes = prevStore.selectedNodes \cup NewSet(lastOp.arg)
    /\ lastOp.name = "deselectNodes"
          => selectedNodes = prevStore.selectedNodes \ NewSet(lastOp.arg)
    /\ lastOp.name = "selectEdges"
          => selectedEdges = prevStore.selectedEdges \cup NewSet(lastOp.arg)
    /\ lastOp.name = "deselectEdges"
          => selectedEdges = prevStore.selectedEdges \ NewSet(lastOp.arg)
    /\ (twice /\ lastOp.name \in {"selectNodes", "deselectNodes",
                                  "selectEdges", "deselectEdges"})
          => /\ selectedNodes = prevStore.selectedNodes
             /\ selectedEdges = prevStore.selectedEdges

C6_Witness ==
    /\ twice
    /\ lastOp = [name |-> "selectNodes", arg |-> <<1>>]
    /\ prev2Store.selectedNodes = {2}
    /\ selectedNodes = {1, 2}

\* C7: clearAllSelections leaves all four sets empty, from any state.
C7_ClearAllEmptiesFour ==
    lastOp.name = "clearAllSelections" => Store = EmptyStore

C7_Witness ==
    /\ lastOp.name = "clearAllSelections"
    /\ prevStore.hoveredNodes # {}
    /\ prevStore.hoveredEdges # {}
    /\ prevStore.selectedNodes # {}
    /\ prevStore.selectedEdges # {}
    /\ Store = EmptyStore

\* C8: no hover operation changes the selected-node or selected-edge set.
HoverOps ==
    {"hoverNode", "hoverNodes", "clearHoveredNodes",
     "hoverEdge", "hoverEdges", "clearHoveredEdges", "clearHover"}

C8_HoverKeepsSelection ==
    lastOp.name \in HoverOps
        => /\ selectedNodes = prevStore.selectedNodes
           /\ selectedEdges = prevStore.selectedEdges

C8_Witness ==
    /\ lastOp.name = "clearHover"
    /\ prevStore.hoveredNodes # {}
    /\ selectedNodes = {1, 2}
    /\ selectedEdges # {}

(***************************************************************************)
(* SpecPanes: the store driven by the panes' element handlers and the      *)
(* control panel, with the provider's renders.  The panes start with their *)
(* surfaces built for the sub-resources the dataset has (node-link data,   *)
(* k-snakes data, each optional); the element handlers are attached by the *)
(* same effect pass that builds a surface.  At most MaxBatch updates are   *)
(* queued between two renders.                                             *)
(***************************************************************************)
InitPanes ==
    /\ InitStore
    /\ \E kinds \in SUBSET {"NodeLink", "KSnakes"} :
          svgRef = [p \in Panes |-> PaneKind[p] \in kinds]
    /\ InitViewport

\* A handler bound to an element of pane p calling one store operation.
PaneEvent(p, op) ==
    /\ svgRef[p]
    /\ batch < MaxBatch
    /\ op
    /\ batch' = batch + 1
    /\ UNCHANGED <<renderVars, svgRef, histVars, zoomVars, viewVars, simVars,
                   netVars, buildVars, appVars, hookVars, furtherVars>>

\* .on('mouseenter') of a node element (.node, .snake-node)
NodeMouseEnter ==
    \E p \in Panes, i \in NodeIds : PaneEvent(p, hoverNode(i))

\* .on('mouseenter') of an edge element; only NodeLinkPane draws edges
EdgeMouseEnter ==
    \E p \in Panes, i \in EdgeIds :
        PaneKind[p] = "NodeLink" /\ PaneEvent(p, hoverEdge(i))

\* .on('mouseleave', clearHover) of a node or edge element
ElementMouseLeave ==
    \E p \in Panes : PaneEvent(p, clearHover)

\* .on('click') of a node element
NodeClick ==
    \E p \in Panes, i \in NodeIds : PaneEvent(p, toggleNodeSelection(i))

\* .on('click') of an edge element
EdgeClick ==
    \E p \in Panes, i \in EdgeIds :
        PaneKind[p] = "NodeLink" /\ PaneEvent(p, toggleEdgeSelection(i))

\* The control panel's Clear button, rendered while something is selected.
ClearButtonClick ==
    /\ value.selectedNodes # {} \/ value.selectedEdges # {}
    /\ batch < MaxBatch
    /\ clearAllSelections
    /\ batch' = batch + 1
    /\ UNCHANGED <<renderVars, svgRef, histVars, zoomVars, viewVars, simVars,
                   netVars, buildVars, appVars, hookVars, furtherVars>>

Render ==
    /\ RenderProvider
    /\ UNCHANGED histVars

NextPanes ==
    \/ NodeMouseEnter
    \/ EdgeMouseEnter
    \/ ElementMouseLeave
    \/ NodeClick
    \/ EdgeClick
    \/ ClearButtonClick
    \/ Render

SpecPanes == InitPanes /\ [][NextPanes]_vars

\* C3: for every identifier i, isNodeHighlighted(i) is true iff i is in the
\* hoveredNodes or the selectedNodes the store publishes with it (likewise
\* isEdgeHighlighted for the edge sets), these are the store's sets whenever
\* no update is queued, and with both sets empty it is false for every i.
C3_HighlightedIffHoveredOrSelected ==
    /\ \A i \in NodeIds :
          isNodeHighlighted(i)
              <=> (i \in value.hoveredNodes \/ i \in value.selectedNodes)
    /\ \A i \in EdgeIds :
          isEdgeHighlighted(i)
              <=> (i \in value.hoveredEdges \/ i \in value.selectedEdges)
    /\ ~pending => value = Store
    /\ (value.hoveredNodes = {} /\ value.selectedNodes = {})
          => \A i \in NodeIds : ~isNodeHighlighted(i)
    /\ (value.hoveredEdges = {} /\ value.selectedEdges = {})
          => \A i \in EdgeIds : ~isEdgeHighlighted(i)

C3_Witness ==
    /\ ~pending
    /\ hoveredNodes = {1}
    /\ selectedNodes = {2}
    /\ selectedEdges = {1}
    /\ isNodeHighlighted(1)
    /\ isNodeHighlighted(2)
    /\ isEdgeHighlighted(1)

\* C9: every pane renders with the same context value, a pane with a
\* surface has applied exactly the sets of that value, and once no update
\* is queued that value is the store's state: no pane is left on an older
\* state than another, and none misses a mutation.
C9_AllPanesSeeSameSets ==
    /\ \A p \in Panes : paneCtx[p] = value
    /\ \A p \in Panes : svgRef[p] => styled[p] = HighlightDeps(p, paneCtx[p])
    /\ ~pending => \A p \in Panes : paneCtx[p] = Store
    /\ pending <=> batch > 0

C9_Witness ==
    /\ ~pending
    /\ \A p \in Panes : svgRef[p]
    /\ hoveredEdges = {1}
    /\ selectedNodes = {1, 2}
    /\ \A p \in Panes : paneCtx[p] = Store /\ styled[p] = HighlightDeps(p, Store)

(***************************************************************************)
(* SpecZoom: one pane's viewport controller (one pane of each kind) called   *)
(* through zoomIn and zoomOut, with its transitions starting and ending in *)
(* every order, a newer transition interrupting the running one.  The      *)
(* pane starts at the identity transform, before a dataset is loaded (no   *)
(* surface) or after (all surfaces built).                                 *)
(***************************************************************************)
MaxZoomCalls == 12
MaxScheduled == 2
MaxFrames == 1

\* The first pane of each kind: the other panes are further NodeLinkPane
\* instances with the same options.
ViewportSubjects ==
    {p \in Panes : \A q \in Panes : q < p => PaneKind[q] # PaneKind[p]}

InitZoom ==
    /\ InitStore
    /\ subject \in ViewportSubjects
    /\ \E size \in SurfaceSizes : viewBox = [p \in Panes |-> size]
    /\ \E built \in BOOLEAN : svgRef = [p \in Panes |-> built]
    /\ InitSurface
    /\ InitSimulation
    /\ InitNetwork
    /\ InitBuild
    /\ InitPaneState
    /\ InitHooks
    /\ InitFurther
    /\ frames = 0
    /\ elemZoom = [p \in Panes |-> ZoomIdentity]
    /\ transform = [p \in Panes |-> ZoomIdentity]
    /\ scheduled = [p \in Panes |-> <<>>]
    /\ running = [p \in Panes |-> NoTransition]
    /\ zoomCalls = 0

ViewportCall(op) ==
    /\ zoomCalls < MaxZoomCalls
    /\ Len(scheduled[subject]) < MaxScheduled
    /\ op
    /\ zoomCalls' = zoomCalls + 1
    /\ UNCHANGED <<storeVars, pending, renderVars, svgRef, batch, histVars,
                   subject, viewBox, frames, viewVars,
                   simVars, netVars, buildVars, appVars, hookVars, furtherVars>>

ZoomInClick == ViewportCall(zoomIn(subject))
ZoomOutClick == ViewportCall(zoomOut(subject))

StartTransition ==
    /\ TransitionStart(subject)
    /\ UNCHANGED <<storeVars, pending, renderVars, svgRef, batch, histVars,
                   subject, viewBox, frames, zoomCalls, viewVars,
                   simVars, netVars, buildVars, appVars, hookVars, furtherVars>>

EndTransition ==
    /\ TransitionEnd(subject)
    /\ UNCHANGED <<storeVars, pending, renderVars, svgRef, batch, histVars,
                   subject, viewBox, frames, zoomCalls, viewVars,
                   simVars, netVars, buildVars, appVars, hookVars, furtherVars>>

RenderFrame ==
    /\ frames < MaxFrames
    /\ TransitionFrame(subject)
    /\ frames' = frames + 1
    /\ UNCHANGED <<storeVars, pending, renderVars, svgRef, batch, histVars,
                   subject, viewBox, zoomCalls, viewVars,
                   simVars, netVars, buildVars, appVars, hookVars, furtherVars>>

NextZoom ==
    \/ ZoomInClick
    \/ ZoomOutClick
    \/ StartTransition
    \/ RenderFrame
    \/ EndTransition

SpecZoom == InitZoom /\ [][NextZoom]_vars

InExtent(p, k) ==
    RLeq(ScaleExtent(p)[1], k) /\ RLeq(k, ScaleExtent(p)[2])

ContainerSizes == SurfaceSizes \cup {[width |-> 0, height |-> 200]}

\* A surface taken out of the document with transitions left on it.
DetachedElementKeepScale(p) ==
    [zoom |-> elemZoom[p],
     centre |-> Centroid(p),
     scheduled |-> Append(scheduled[p],
                          [op |-> "resetZoom",
                           target |-> [ZoomIdentity EXCEPT !.k = elemZoom[p].k]]),
     running |-> running[p]]
DetachedElement(p) ==
    [zoom |-> elemZoom[p],
     centre |-> Centroid(p),
     scheduled |-> Append(scheduled[p],
                          [op |-> "resetZoom", target |-> ZoomIdentity]),
     running |-> running[p]]

\* The effects of pane p that run when its data prop changes, in the order
\* of their declaration.  The reset effect calls resetZoom() on the surface
\* of the previous dataset; the initialisation effect returns without data
\* or with a container of no area, and otherwise removes that surface and
\* builds a new one, whose element has no __zoom (the identity once used) and
\* no listeners; NodeLinkPane then installs its filter.
DataChange(p, hasData, size) ==
    IF hasData /\ size.width # 0 /\ size.height # 0
    THEN /\ detached' =
               [detached EXCEPT ![p] =
                   IF svgRef[p] THEN Append(@, DetachedElement(p)) ELSE @]
         /\ svgRef' = [svgRef EXCEPT ![p] = TRUE]
         /\ viewBox' = [viewBox EXCEPT ![p] = size]
         /\ clientRect' = [clientRect EXCEPT ![p] = size]
         /\ elemZoom' = [elemZoom EXCEPT ![p] = ZoomIdentity]
         /\ scheduled' = [scheduled EXCEPT ![p] = <<>>]
         /\ running' = [running EXCEPT ![p] = NoTransition]
         /\ zoomBound' = [zoomBound EXCEPT ![p] = FALSE]
         /\ filterFnRef' =
               [filterFnRef EXCEPT ![p] = BuiltFilter(p, TRUE, @)]
         /\ zoomFilter' = [zoomFilter EXCEPT ![p] = BuiltFilter(p, TRUE, @)]
         /\ UNCHANGED transform
    ELSE /\ resetZoom(p)
         /\ UNCHANGED <<detached, svgRef, viewBox, clientRect, zoomBound,
                        filterFnRef, zoomFilter>>

\* The container of pane p is resized: the surface is styled to fill it.
\* (The ResizeObserver effect has an empty dependency list and returned at
\* mount, when no surface existed, so no observer is installed.)
ContainerResized(p, size) ==
    /\ svgRef[p]
    /\ size # clientRect[p]
    /\ clientRect' = [clientRect EXCEPT ![p] = size]

\* A render of pane p: the binding effect of useZoomPan sees a surface other
\* than the one of its last run and applies the zoom behaviour to it.
BindEffect(p) ==
    /\ svgRef[p]
    /\ ~zoomBound[p]
    /\ zoomBound' = [zoomBound EXCEPT ![p] = TRUE]

\* Transitions take the same duration, so they start and end in the order of
\* their creation: those of a replaced surface before those of its
\* successor.
NoOlderScheduled(p, i) ==
    \A j \in 1..(i - 1) : detached[p][j].scheduled = <<>>

RECURSIVE DropIdle(_)
DropIdle(elems) ==
    IF elems = <<>> THEN <<>>
    ELSE IF Head(elems).scheduled = <<>> /\ Head(elems).running = NoTransition
         THEN DropIdle(Tail(elems))
         ELSE <<Head(elems)>> \o DropIdle(Tail(elems))

\* The oldest created transition of the i-th replaced surface starts.
DetachedStart(p, i) ==
    /\ i \in DOMAIN detached[p]
    /\ detached[p][i].scheduled # <<>>
    /\ NoOlderScheduled(p, i)
    /\ LET e == detached[p][i]
           tr == Head(e.scheduled)
       IN detached' =
             [detached EXCEPT ![p][i] =
                 [e EXCEPT !.scheduled = Tail(@),
                           !.running =
                               [op |-> tr.op, from |-> e.zoom,
                                target |->
                                    TransitionTargetAt(p, e.centre, e.zoom, tr)]]]
    /\ UNCHANGED <<elemZoom, transform, scheduled, running>>

\* A frame of the transition running on the i-th replaced surface: its
\* "zoom" listener still stores the frame with setTransform.
DetachedFrame(p, i) ==
    /\ i \in DOMAIN detached[p]
    /\ detached[p][i].running # NoTransition
    /\ LET e == detached[p][i]
           t == MidFrameAt(e.centre, e.running.from, e.running.target)
       IN /\ t # e.zoom
          /\ e.zoom # e.running.target
          /\ detached' = [detached EXCEPT ![p][i].zoom = t]
          /\ transform' = [transform EXCEPT ![p] = t]
    /\ UNCHANGED <<elemZoom, scheduled, running>>

\* The transition running on the i-th replaced surface reaches its end.
DetachedEnd(p, i) ==
    /\ i \in DOMAIN detached[p]
    /\ detached[p][i].running # NoTransition
    /\ \A j \in 1..(i - 1) : detached[p][j].running = NoTransition
    /\ NoOlderScheduled(p, i)
    /\ LET e == detached[p][i]
       IN /\ detached' =
                [detached EXCEPT ![p] =
                    DropIdle([@ EXCEPT ![i] =
                                [e EXCEPT !.zoom = e.running.target,
                                          !.running = NoTransition]])]
          /\ transform' = [transform EXCEPT ![p] = e.running.target]
    /\ UNCHANGED <<elemZoom, scheduled, running>>

(***************************************************************************)
(* SpecViewport: one pane's viewport (one pane of each kind) under every   *)
(* input it has: the zoom controls and keyboard shortcuts, wheel and drag  *)
(* gestures, dataset changes, container resizes and renders, with the      *)
(* transitions of its current and of its replaced surfaces.                *)
(***************************************************************************)
MaxViewOps == 2
MaxDetached == 1

\* Arguments of fitToContent, <<bounds, padding>>: content that fits the
\* surface twice over, without and with padding (handleFitContent passes
\* none); node positions spread far wider than the surface; bounds of no
\* width; no bounds.
FitArgs ==
    {<<Bounds(0, 0, 100, 50), 0>>, <<Bounds(0, 0, 100, 50), 20>>,
     <<Bounds(-1900, 50, 4000, 100), 0>>, <<Bounds(0, 0, 0, 10), 0>>,
     <<NoBounds, 0>>}

\* Where a gesture starts.
Targets == {"node", "edge", "background"}

\* Scale factors of one wheel notch in either direction.
WheelFactors == {Rat(2, 1), Rat(1, 2)}

\* Pointer movement of a drag, in pixels.
DragDx == 40

otherVars ==
    <<storeVars, pending, renderVars, batch, histVars, subject, simVars,
      netVars, buildVars, appVars, hookVars, furtherVars>>

\* A viewport input on the subject pane.
ViewInput(op, kind, arg) ==
    /\ viewOps < MaxViewOps
    /\ Len(scheduled[subject]) < MaxScheduled
    /\ op
    /\ viewOps' = viewOps + 1
    /\ step' = [kind |-> kind, pane |-> subject, arg |-> arg]
    /\ UNCHANGED <<otherVars, svgRef, viewBox, frames, zoomCalls, clientRect,
                   zoomBound, filterFnRef, zoomFilter, detached>>

ZoomInInput == ViewInput(zoomIn(subject), "zoomIn", <<>>)
ZoomOutInput == ViewInput(zoomOut(subject), "zoomOut", <<>>)
ResetInput == ViewInput(resetZoom(subject), "resetZoom", <<>>)

FitInput ==
    \E args \in FitArgs :
        ViewInput(fitToContent(subject, args[1], args[2]), "fitToContent",
                  args)

WheelInput ==
    \E target \in Targets, factor \in WheelFactors :
        ViewInput(wheeled(subject, target, factor), "wheel",
                  <<target, factor>>)

DragInput ==
    \E target \in Targets :
        ViewInput(mousedragged(subject, target, DragDx), "mousedown",
                  <<target>>)

DatasetChange ==
    \E hasData \in BOOLEAN, size \in ContainerSizes :
        /\ viewOps < MaxViewOps
        /\ Len(scheduled[subject]) < MaxScheduled
        /\ Len(detached[subject]) < MaxDetached
        /\ DataChange(subject, hasData, size)
        /\ viewOps' = viewOps + 1
        /\ step' = [kind |-> "data", pane |-> subject, arg |-> <<>>]
        /\ UNCHANGED <<otherVars, frames, zoomCalls>>

Resize ==
    \E size \in ContainerSizes :
        /\ viewOps < MaxViewOps
        /\ ContainerResized(subject, size)
        /\ viewOps' = viewOps + 1
        /\ step' = [kind |-> "resize", pane |-> subject, arg |-> <<>>]
        /\ UNCHANGED <<otherVars, svgRef, viewBox, frames, zoomCalls,
                       zoomVars, zoomBound, filterFnRef, zoomFilter,
                       detached>>

PaneRender ==
    /\ BindEffect(subject)
    /\ UNCHANGED <<otherVars, svgRef, zoomVars, clientRect, filterFnRef,
                   zoomFilter, detached, step, viewOps>>

\* A step of a transition of the subject pane's current surface.
CurrentStep(A) ==
    /\ A
    /\ UNCHANGED <<otherVars, svgRef, viewBox, zoomCalls, clientRect,
                   zoomBound, filterFnRef, zoomFilter, detached, step,
                   viewOps>>

ViewStart ==
    /\ NoOlderScheduled(subject, Len(detached[subject]) + 1)
    /\ CurrentStep(TransitionStart(subject))
    /\ UNCHANGED frames

ViewFrame ==
    /\ frames < MaxFrames
    /\ CurrentStep(TransitionFrame(subject))
    /\ frames' = frames + 1

ViewEnd ==
    /\ detached[subject] = <<>>
    /\ CurrentStep(TransitionEnd(subject))
    /\ UNCHANGED frames

\* A step of a transition of a replaced surface of the subject pane.
DetachedStep(A) ==
    /\ A
    /\ UNCHANGED <<otherVars, svgRef, viewBox, zoomCalls, clientRect,
                   zoomBound, filterFnRef, zoomFilter, step, viewOps>>

OldStart ==
    /\ \E i \in DOMAIN detached[subject] :
          DetachedStep(DetachedStart(subject, i))
    /\ UNCHANGED frames

OldFrame ==
    /\ frames < MaxFrames
    /\ \E i \in DOMAIN detached[subject] :
          DetachedStep(DetachedFrame(subject, i))
    /\ frames' = frames + 1

OldEnd ==
    /\ \E i \in DOMAIN detached[subject] :
          DetachedStep(DetachedEnd(subject, i))
    /\ UNCHANGED frames

NextViewport ==
    \/ ZoomInInput
    \/ ZoomOutInput
    \/ ResetInput
    \/ FitInput
    \/ WheelInput
    \/ DragInput
    \/ DatasetChange
    \/ Resize
    \/ PaneRender
    \/ ViewStart
    \/ ViewFrame
    \/ ViewEnd
    \/ OldStart
    \/ OldFrame
    \/ OldEnd

InitView ==
    /\ InitStore
    /\ subject \in ViewportSubjects
    /\ viewBox = [p \in Panes |-> [width |-> 200, height |-> 200]]
    /\ \E built \in BOOLEAN : svgRef = [p \in Panes |-> built]
    /\ InitSurface
    /\ InitSimulation
    /\ InitNetwork
    /\ InitBuild
    /\ InitPaneState
    /\ InitHooks
    /\ InitFurther
    /\ frames = 0
    /\ elemZoom = [p \in Panes |-> ZoomIdentity]
    /\ transform = [p \in Panes |-> ZoomIdentity]
    /\ scheduled = [p \in Panes |-> <<>>]
    /\ running = [p \in Panes |-> NoTransition]
    /\ zoomCalls = 0

SpecViewport == InitView /\ [][NextViewport]_vars

\* zoomPercent: Math.round(transform.k * 100)
ZoomPercent(p) ==
    (200 * transform[p].k.n + transform[p].k.d) \div (2 * transform[p].k.d)

\* No transition of pane p is created or running, on its current surface or
\* on a replaced one.
Quiescent(p) ==
    /\ scheduled[p] = <<>>
    /\ running[p] = NoTransition
    /\ detached[p] = <<>>

\* C11 as stated: in every reachable viewport state the scale lies within
\* [scaleExtent.min, scaleExtent.max].
C11_ScaleWithinExtent ==
    \A p \in Panes :
        InExtent(p, transform[p].k) /\ InExtent(p, elemZoom[p].k)

\* C12: a fitToContent(bounds, padding) call on a surface of size W x H with
\* non-degenerate bounds runs, as the last transition of the surface, one
\* whose target, the transform once nothing is left to run, has scale min((W - 2 padding) / bounds.width,
\* (H - 2 padding) / bounds.height, scaleExtent.max) and maps the centre of
\* the bounds to (W / 2, H / 2).
C12_FitEndsCentred ==
    LET p == step.pane
        bounds == step.arg[1]
        padding == step.arg[2]
        W == clientRect[p].width
        H == clientRect[p].height
        a == Rat(W - 2 * padding, bounds.width)
        b == Rat(H - 2 * padding, bounds.height)
        m == ScaleExtent(p)[2]
        Fits(t) ==
            /\ t.k \in {a, b, m}
            /\ RLeq(t.k, a) /\ RLeq(t.k, b) /\ RLeq(t.k, m)
            /\ RAdd(RMul(t.k, Rat(2 * bounds.x + bounds.width, 2)), t.x)
                  = Rat(W, 2)
            /\ RAdd(RMul(t.k, Rat(2 * bounds.y + bounds.height, 2)), t.y)
                  = Rat(H, 2)
    IN (/\ step.kind = "fitToContent"
        /\ svgRef[p]
        /\ ~DegenerateFit(clientRect[p], bounds))
          => /\ (scheduled[p] = <<>> /\ running[p] # NoTransition)
                   => (running[p].op = "fitToContent" /\ Fits(running[p].target))
             /\ Quiescent(p) => (Fits(transform[p]) /\ elemZoom[p] = transform[p])

\* Bounds {0, 0, 100, 50} fitted on a 200 x 200 surface without padding:
\* scale 2, and (50, 25) maps to (100, 100).
C12_Witness ==
    /\ step.kind = "fitToContent"
    /\ step.arg = <<Bounds(0, 0, 100, 50), 0>>
    /\ clientRect[subject] = [width |-> 200, height |-> 200]
    /\ Quiescent(subject)
    /\ transform[subject] = [k |-> Rat(2, 1), x |-> Rat(0, 1), y |-> Rat(50, 1)]

\* C13: a fitToContent call without bounds, or with bounds or a surface of
\* zero width or height, changes no transform and creates no transition.
C13_DegenerateFitNoOp ==
    [][(/\ viewOps' = viewOps + 1
        /\ step'.kind = "fitToContent"
        /\ DegenerateFit(clientRect[step'.pane], step'.arg[1]))
          => UNCHANGED <<transform, elemZoom, scheduled, running, detached>>]_vars

\* A zoomed pane after fitToContent with bounds of zero width.
C13_Witness ==
    /\ step.kind = "fitToContent"
    /\ step.arg[1] = Bounds(0, 0, 0, 10)
    /\ svgRef[subject]
    /\ Quiescent(subject)
    /\ transform[subject].k = Rat(5, 4)

\* C14: a reset transition always heads for the identity, and once the last
\* viewport input was reset() and nothing is left to run, the transform (of
\* the state and of the element) is the identity.
C14_ResetEndsAtIdentity ==
    /\ \A p \in Panes :
          (running[p] # NoTransition /\ running[p].op = "resetZoom")
              => running[p].target = ZoomIdentity
    /\ (step.kind = "resetZoom" /\ Quiescent(step.pane))
          => /\ transform[step.pane] = ZoomIdentity
             /\ elemZoom[step.pane] = ZoomIdentity

\* A reset running from a zoomed transform.
C14_Witness ==
    /\ step.kind = "resetZoom"
    /\ running[subject] # NoTransition
    /\ running[subject].op = "resetZoom"
    /\ running[subject].from.k = Rat(5, 4)
    /\ transform[subject].k = Rat(5, 4)

C16_OtherPanesUntouched ==
    [][\A p \in Panes \ {subject} :
          /\ transform'[p] = transform[p]
          /\ elemZoom'[p] = elemZoom[p]
          /\ ZoomPercent(p)' = ZoomPercent(p)]_vars

\* The first node-link pane zoomed in, the third one (same type, same
\* dataset) untouched.
C16_Witness ==
    /\ subject = 1
    /\ svgRef[3]
    /\ ZoomPercent(1) = 125
    /\ ZoomPercent(3) = 100
    /\ \A p \in Panes \ {1} : transform[p] = ZoomIdentity


\* C17: the filter in force on a pane's zoom behaviour is the predicate last
\* given to setFilter (the d3 default when none was), and a node-link pane
\* with a surface has its own predicate in force.  Under it a mouse press
\* that starts on a node changes neither the transform nor the element's
\* zoom nor any transition, while on a surface with the listeners a press on
\* an edge or the background pans by the pointer's movement and a wheel
\* event over any target, a node included, zooms to the clamped scale.
C17_FilterBlocksNodeGestures ==
    [][LET q == step'.pane
       IN /\ \A p \in Panes :
                /\ zoomFilter'[p] = IF filterFnRef'[p] = "none"
                                    THEN "default"
                                    ELSE filterFnRef'[p]
                /\ (PaneKind[p] = "NodeLink" /\ svgRef'[p])
                      => zoomFilter'[p] = "nodeLink"
          /\ (/\ viewOps' # viewOps
              /\ step'.kind = "mousedown"
              /\ PaneKind[q] = "NodeLink"
              /\ step'.arg[1] = "node")
                => /\ transform' = transform
                   /\ elemZoom' = elemZoom
                   /\ scheduled' = scheduled
                   /\ running' = running
          /\ (/\ viewOps' # viewOps
              /\ step'.kind = "mousedown"
              /\ zoomBound[q]
              /\ (PaneKind[q] # "NodeLink" \/ step'.arg[1] # "node"))
                => /\ transform'[q].x = RAdd(elemZoom[q].x, Rat(DragDx, 1))
                   /\ transform'[q].k = elemZoom[q].k
                   /\ elemZoom'[q] = transform'[q]
          /\ (/\ viewOps' # viewOps
              /\ step'.kind = "wheel"
              /\ zoomBound[q])
                => elemZoom'[q].k
                      = ClampScale(q, RMul(elemZoom[q].k, step'.arg[2]))
      ]_vars

\* A node-link pane whose surface has the zoom listeners and whose view was
\* moved off the identity took a mouse press on a node.
C17_Witness ==
    /\ step.kind = "mousedown"
    /\ step.arg = <<"node">>
    /\ PaneKind[step.pane] = "NodeLink"
    /\ svgRef[step.pane]
    /\ zoomBound[step.pane]
    /\ zoomFilter[step.pane] = "nodeLink"
    /\ viewOps = 2
    /\ transform[step.pane] # ZoomIdentity
    /\ elemZoom[step.pane] = transform[step.pane]

\* C18: a programmatic transition requested on a pane cancels the earlier
\* one of that pane: while the later one animates no other transition of the
\* pane does, on its current surface or on one it replaced, so that only the
\* latest request moves the transform; and once nothing is left to run the
\* transform is the one the pane's current surface ended at.
C18_LaterTransitionCancelsEarlier ==
    \A p \in Panes :
        /\ running[p] # NoTransition
             => \A i \in DOMAIN detached[p] :
                    detached[p][i].running = NoTransition
        /\ (/\ Quiescent(p)
            /\ svgRef[p]
            /\ step.pane = p
            /\ step.kind \in {"zoomIn", "zoomOut", "resetZoom", "fitToContent"})
              => transform[p] = elemZoom[p]

(***************************************************************************)
(* SpecSim: the force simulation of one node-link pane under dataset       *)
(* changes, container resizes, unmount, node drag gestures and the ticks   *)
(* of every simulation whose timer runs.                                   *)
(***************************************************************************)
MaxGen == 2

nonSimVars ==
    <<storeVars, pending, renderVars, svgRef, batch, histVars, zoomVars,
      viewVars, netVars, buildVars, appVars, hookVars, furtherVars>>

\* The data prop changes to d: the cleanup of the last initialisation effect
\* run that built a simulation stops it, then the effect runs.  Without
\* data the pane shows its empty state and the container leaves the
\* document; without data or with a container of no area the effect returns
\* (and registers no cleanup); otherwise it empties the container and
\* builds the elements and a simulation, which starts at once.
SimDataChange ==
    \E d \in DataIds \ {data} :
        /\ mounted
        /\ IF d # 0 /\ containerArea
           THEN /\ Len(sims) < MaxGen
                /\ \E pos \in [SimNodes -> Positions] :
                       sims' = Collect(Append(AfterCleanup,
                                              NewSimulation(d, pos)),
                                       Len(sims) + 1)
                /\ simulationRef' = Len(sims) + 1
                /\ rendered' = Len(sims) + 1
                /\ cleanupSim' = Len(sims) + 1
           ELSE /\ sims' = Collect(AfterCleanup,
                                   IF d = 0 THEN 0 ELSE rendered)
                /\ rendered' = IF d = 0 THEN 0 ELSE rendered
                /\ cleanupSim' = 0
                /\ UNCHANGED simulationRef
        /\ data' = d
        /\ simStep' = NoSimStep
        /\ UNCHANGED <<nonSimVars, containerArea, mounted, resizeObserved>>

\* The pane unmounts: the pending cleanup runs and the container leaves the
\* document.
SimUnmount ==
    /\ mounted
    /\ sims' = Collect(AfterCleanup, 0)
    /\ mounted' = FALSE
    /\ rendered' = 0
    /\ cleanupSim' = 0
    /\ simStep' = NoSimStep
    /\ UNCHANGED <<nonSimVars, simulationRef, data, containerArea,
                   resizeObserved>>

\* The container gains or loses its area.  A ResizeObserver callback would
\* restart the simulation it holds; the effect installing the observer has
\* no dependencies and ran at mount before any surface existed.
SimResize ==
    /\ mounted
    /\ containerArea' = ~containerArea
    /\ sims' = IF resizeObserved # 0 /\ containerArea'
               THEN [sims EXCEPT ![resizeObserved] = RestartSimulation(@)]
               ELSE sims
    /\ simStep' = NoSimStep
    /\ UNCHANGED <<nonSimVars, simulationRef, rendered, data, mounted,
                   cleanupSim, resizeObserved>>

\* The timer of simulation g fires: the nodes move and the tick handler
\* writes their positions to the elements of its build (positions out of
\* the document are not told apart).  With alpha target 0 the alpha decays
\* and a tick can be the last one.
SimTick ==
    \E g \in DOMAIN sims, last \in BOOLEAN :
      \E to \in IF g = rendered THEN [SimNodes -> Positions]
                ELSE {[n \in SimNodes |-> [x |-> 0, y |-> 1]]} :
        /\ sims[g].timer
        /\ last => sims[g].alphaTarget = "0"
        /\ sims' = Collect([sims EXCEPT
                               ![g].nodes =
                                   [n \in SimNodes |-> TickNode(@[n], to[n])],
                               ![g].timer = ~last],
                           rendered)
        /\ simStep' = NoSimStep
        /\ UNCHANGED <<nonSimVars, simulationRef, rendered, data,
                       containerArea, mounted, cleanupSim, resizeObserved>>

\* A pointer goes down on a node element that is in the document.
SimDragStart ==
    \E n \in SimNodes :
        /\ mounted
        /\ containerArea
        /\ rendered # 0
        /\ n \notin sims[rendered].active
        /\ sims' = [sims EXCEPT ![rendered] = dragstarted(rendered, n)]
        /\ simStep' = [kind |-> "start", gen |-> rendered, node |-> n]
        /\ UNCHANGED <<nonSimVars, simulationRef, rendered, data,
                       containerArea, mounted, cleanupSim, resizeObserved>>

\* The pointer of an active gesture moves.
SimDragged ==
    \E g \in DOMAIN sims, pointer \in Positions :
        \E n \in sims[g].active :
            /\ sims' = Collect([sims EXCEPT ![g] = dragged(g, n, pointer)],
                               rendered)
            /\ simStep' = NoSimStep
            /\ UNCHANGED <<nonSimVars, simulationRef, rendered, data,
                           containerArea, mounted, cleanupSim,
                           resizeObserved>>

\* The pointer of an active gesture goes up.
SimDragEnd ==
    \E g \in DOMAIN sims :
        \E n \in sims[g].active :
            /\ sims' = Collect([sims EXCEPT ![g] = dragended(g, n)],
                               rendered)
            /\ simStep' = [kind |-> "end", gen |-> g, node |-> n]
            /\ UNCHANGED <<nonSimVars, simulationRef, rendered, data,
                           containerArea, mounted, cleanupSim,
                           resizeObserved>>

NextSim ==
    \/ SimDataChange
    \/ SimUnmount
    \/ SimResize
    \/ SimTick
    \/ SimDragStart
    \/ SimDragged
    \/ SimDragEnd

\* After mount: the resize effect ran before the initialisation effect and
\* found no surface; the initialisation effect built a simulation if the
\* pane had data and its container an area.
InitSim ==
    /\ InitStore
    /\ svgRef = [p \in Panes |-> FALSE]
    /\ subject = 1
    /\ viewBox = [p \in Panes |-> [width |-> 200, height |-> 200]]
    /\ InitSurface
    /\ frames = 0
    /\ elemZoom = [p \in Panes |-> ZoomIdentity]
    /\ transform = [p \in Panes |-> ZoomIdentity]
    /\ scheduled = [p \in Panes |-> <<>>]
    /\ running = [p \in Panes |-> NoTransition]
    /\ zoomCalls = 0
    /\ InitNetwork
    /\ InitBuild
    /\ InitPaneState
    /\ InitHooks
    /\ InitFurther
    /\ mounted = TRUE
    /\ resizeObserved = 0
    /\ simStep = NoSimStep
    /\ data \in {0, 1}
    /\ containerArea \in BOOLEAN
    /\ IF data # 0 /\ containerArea
       THEN /\ \E pos \in [SimNodes -> Positions] :
                   sims = <<NewSimulation(data, pos)>>
            /\ simulationRef = 1
            /\ rendered = 1
            /\ cleanupSim = 1
       ELSE /\ sims = <<>>
            /\ simulationRef = 0
            /\ rendered = 0
            /\ cleanupSim = 0

SpecSim == InitSim /\ [][NextSim]_vars

\* C19: in the state right after dragstarted ran for node n the node is
\* fixed where it is, n.fx = n.x and n.fy = n.y, and in the state right
\* after dragended ran for n it is released, n.fx = null and n.fy = null,
\* whatever ticks and other drag events came before.
C19_PinOnStartReleaseOnEnd ==
    /\ simStep.kind = "start"
         => LET node == sims[simStep.gen].nodes[simStep.node]
            IN /\ node.fx # Null
               /\ node.fx = node.x
               /\ node.fy # Null
               /\ node.fy = node.y
    /\ simStep.kind = "end"
         => LET node == sims[simStep.gen].nodes[simStep.node]
            IN node.fx = Null /\ node.fy = Null

\* A node has just been grabbed at (1, 0) while another gesture holds the
\* other node, which a tick has put at the pointer, (0, 1).
C19_Witness ==
    /\ simStep.kind = "start"
    /\ sims[simStep.gen].active = SimNodes
    /\ sims[simStep.gen].nodes[simStep.node]
          = [x |-> 1, y |-> 0, fx |-> 1, fy |-> 0]
    /\ \E n \in SimNodes \ {simStep.node} :
           sims[simStep.gen].nodes[n] = [x |-> 0, y |-> 1, fx |-> 0, fy |-> 1]

\* C20: a simulation whose effect cleanup has run (its dataset was replaced
\* or the pane unmounted) has its timer stopped, so that it never ticks
\* again.
C20_TornSimulationNeverTicks ==
    \A g \in DOMAIN sims : sims[g].torn => ~sims[g].timer

\* C32: whenever the container changes to a size with an area while the
\* pane holds a simulation for its current dataset, that simulation is
\* reheated by the resize (centre force renewed, alpha raised, timer
\* restarted), so that it ticks afterwards.
C32_ResizeReheatsCurrentSimulation ==
    [][(/\ SimResize
        /\ containerArea'
        /\ data # 0
        /\ simulationRef # 0
        /\ sims[simulationRef].dataset = data
        /\ ~sims[simulationRef].torn)
          => sims'[simulationRef].timer]_vars

\* C33: across overlapping drag gestures on one simulation the alpha target
\* is 0.3 exactly while at least one gesture is in progress: it is raised
\* when a gesture starts with no other in progress, stays while one is left
\* and returns to 0 only when the last one ends; and right after a gesture
\* started with no other in progress the simulation's timer runs.
C33_AlphaTargetFollowsGestures ==
    /\ \A g \in DOMAIN sims :
           sims[g].alphaTarget = IF sims[g].active = {} THEN "0" ELSE "0.3"
    /\ (simStep.kind = "start"
           /\ sims[simStep.gen].active = {simStep.node})
          => sims[simStep.gen].timer

\* One of two overlapping gestures has just ended: the other is still in
\* progress and the alpha target is still 0.3.
C33_Witness ==
    /\ simStep.kind = "end"
    /\ sims[simStep.gen].active # {}
    /\ sims[simStep.gen].alphaTarget = "0.3"
    /\ sims[simStep.gen].timer

(***************************************************************************)
(* SpecNetwork: the network store under dataset selections in the control  *)
(* panel, the settling of the loads' fetches, and hover and click events   *)
(* on the elements the panes show meanwhile.                               *)
(***************************************************************************)
nonNetVars ==
    <<renderVars, svgRef, batch, histVars, zoomVars, viewVars, simVars,
      buildVars, appVars, hookVars, furtherVars>>

\* loadNetwork(networkId) up to its await: nothing for the network already
\* loaded, else the loading flag is set, the error cleared and the fetches
\* are under way.
loadNetwork(networkId) ==
    IF networkId = currentNetworkId /\ networkData # NoData
    THEN UNCHANGED <<isLoading, error, loads>>
    ELSE /\ isLoading' = TRUE
         /\ error' = FALSE
         /\ loads' = Append(loads, networkId)

\* The select's change handler: clearAllSelections(), then loadNetwork.
handleNetworkChange(networkId) ==
    /\ clearAllSelections
    /\ loadNetwork(networkId)

\* The user picks another network; the select is disabled while loading.
SelectNetwork ==
    \E networkId \in NetworkIds \ {currentNetworkId} :
        /\ ~isLoading
        /\ handleNetworkChange(networkId)
        /\ netStep' = [kind |-> "select", id |-> networkId,
                       shown |-> networkData]
        /\ UNCHANGED <<nonNetVars, currentNetworkId, networkData>>

RemoveAt(seq, i) ==
    [j \in 1..(Len(seq) - 1) |-> IF j < i THEN seq[j] ELSE seq[j + 1]]

\* loadNetwork after its await, for the load at position i of those in
\* flight and the data nd its fetches gave: the data and the id are stored,
\* and the finally block clears the loading flag.
installData(i, nd) ==
    /\ networkData' = nd
    /\ currentNetworkId' = loads[i]
    /\ isLoading' = FALSE
    /\ loads' = RemoveAt(loads, i)
    /\ netStep' = [kind |-> "installed", id |-> loads[i],
                   shown |-> networkData]
    /\ UNCHANGED error

\* The catch block of loadNetwork: the error and null data are stored; the
\* id stays.
installError(i) ==
    /\ error' = TRUE
    /\ networkData' = NoData
    /\ isLoading' = FALSE
    /\ loads' = RemoveAt(loads, i)
    /\ netStep' = [kind |-> "failed", id |-> loads[i],
                   shown |-> networkData]
    /\ UNCHANGED currentNetworkId

\* The fetches of a load settle and loadNetwork resumes: the data (each file
\* null when its response was not ok) and the id are stored.
LoadInstalled ==
    \E i \in DOMAIN loads, nodeLink \in NodeLinkShapes, kSnakes \in BOOLEAN :
        /\ installData(i, [id |-> loads[i], nodeLink |-> nodeLink,
                           kSnakes |-> kSnakes])
        /\ UNCHANGED <<nonNetVars, storeVars, pending>>

\* A fetch or its parsing throws.
LoadFailed ==
    \E i \in DOMAIN loads :
        /\ installError(i)
        /\ UNCHANGED <<nonNetVars, storeVars, pending>>

\* A pane has elements when its part of the loaded data has nodes.
HasElements(p) ==
    IF PaneKind[p] = "NodeLink" THEN networkData.nodeLink = "nodes"
    ELSE networkData.kSnakes

\* A pointer event on an element of the data shown.
ShownElementEvent(op, kind) ==
    /\ \E p \in Panes : HasElements(p)
    /\ op
    /\ netStep' = [kind |-> kind, id |-> currentNetworkId,
                   shown |-> networkData]
    /\ UNCHANGED <<nonNetVars, currentNetworkId, networkData, isLoading,
                   error, loads>>

ShownNodeEnter ==
    \E i \in NodeIds : ShownElementEvent(hoverNode(i), "mouseenter")
ShownElementLeave == ShownElementEvent(clearHover, "mouseleave")
ShownNodeClick ==
    \E i \in NodeIds : ShownElementEvent(toggleNodeSelection(i), "click")
ShownEdgeClick ==
    \E e \in EdgeIds :
        /\ networkData.nodeLink = "nodes"
        /\ ShownElementEvent(toggleEdgeSelection(e), "click")

NextNetwork ==
    \/ SelectNetwork
    \/ LoadInstalled
    \/ LoadFailed
    \/ ShownNodeEnter
    \/ ShownElementLeave
    \/ ShownNodeClick
    \/ ShownEdgeClick

\* After mount: ControlPanel's effect has called loadNetwork('karate-club').
InitNet ==
    /\ InitStore
    /\ svgRef = [p \in Panes |-> FALSE]
    /\ subject = 1
    /\ viewBox = [p \in Panes |-> [width |-> 200, height |-> 200]]
    /\ InitSurface
    /\ InitSimulation
    /\ InitNetwork
    /\ InitBuild
    /\ InitPaneState
    /\ InitHooks
    /\ InitFurther
    /\ frames = 0
    /\ elemZoom = [p \in Panes |-> ZoomIdentity]
    /\ transform = [p \in Panes |-> ZoomIdentity]
    /\ scheduled = [p \in Panes |-> <<>>]
    /\ running = [p \in Panes |-> NoTransition]
    /\ zoomCalls = 0

SpecNetwork == InitNet /\ [][NextNetwork]_vars

\* C21: at the moment the data of a newly selected network is installed
\* while another network's data was shown, the four sets are empty.
C21_SetsEmptyAtInstall ==
    (netStep.kind = "installed" /\ netStep.shown # NoData)
       => Store = EmptyStore

\* C22: while the pane is mounted, the elements in the document and the
\* simulation that simulationRef holds (whose nodes handleFitContent reads)
\* are those of the dataset the data prop now is; in particular right after
\* a change of the data prop, whatever the new value and the container size.
C22_NoNodeOfPreviousDataset ==
    mounted =>
        /\ rendered # 0 => sims[rendered].dataset = data
        /\ simulationRef # 0 => sims[simulationRef].dataset = data

(***************************************************************************)
(* SpecBuild: the build of simulation nodes and edges, applied to every     *)
(* dataset of the bounded input sets, once and again                       *)
(***************************************************************************)
nonBuildVars ==
    <<storeVars, pending, renderVars, svgRef, batch, histVars, zoomVars,
      viewVars, simVars, netVars, appVars, hookVars, furtherVars>>

\* The initialisation effect runs for the dataset for the first time.
FirstBuild ==
    /\ buildResult.status = "none"
    /\ \E pos \in [DOMAIN buildInput.nodes -> Positions] :
           buildResult' = BuildSimulation(buildInput, pos)
    /\ UNCHANGED <<buildInput, prevResult, nonBuildVars>>

\* The effect runs again for the same lists.
Rebuild ==
    /\ buildResult.status # "none"
    /\ \E pos \in [DOMAIN buildInput.nodes -> Positions] :
           buildResult' = BuildSimulation(buildInput, pos)
    /\ prevResult' = buildResult
    /\ UNCHANGED <<buildInput, nonBuildVars>>

\* Another dataset arrives.
BuildDataChange ==
    /\ buildResult.status # "none"
    /\ \E input \in BuildInputs \ {buildInput} : buildInput' = input
    /\ buildResult' = NoBuild
    /\ prevResult' = NoBuild
    /\ UNCHANGED nonBuildVars

NextBuild == FirstBuild \/ Rebuild \/ BuildDataChange

\* The datasets the build is applied to.
InitBld ==
    /\ InitStore
    /\ svgRef = [p \in Panes |-> FALSE]
    /\ subject = 1
    /\ viewBox = [p \in Panes |-> [width |-> 200, height |-> 200]]
    /\ InitSurface
    /\ InitSimulation
    /\ InitNetwork
    /\ frames = 0
    /\ elemZoom = [p \in Panes |-> ZoomIdentity]
    /\ transform = [p \in Panes |-> ZoomIdentity]
    /\ scheduled = [p \in Panes |-> <<>>]
    /\ running = [p \in Panes |-> NoTransition]
    /\ zoomCalls = 0
    /\ InitPaneState
    /\ InitHooks
    /\ InitFurther
    /\ buildInput \in BuildInputs
    /\ buildResult = NoBuild
    /\ prevResult = NoBuild

SpecBuild == InitBld /\ [][NextBuild]_vars

\* The edges of the input whose two ends are node_idx values of its nodes.
ResolvableEdges(input) ==
    {i \in DOMAIN input.edges :
        /\ \E j \in DOMAIN input.nodes : input.nodes[j] = input.edges[i].source
        /\ \E j \in DOMAIN input.nodes : input.nodes[j] = input.edges[i].target}

\* C23: when the dataset has an edge whose source or target is the
\* identifier of no node, the build still succeeds: every node is built, the
\* edges built are exactly the resolvable ones, and the malformed edges are
\* reported.
C23_UnresolvedEdgeFilteredOrReported ==
    (buildResult.status # "none"
         /\ ResolvableEdges(buildInput) # DOMAIN buildInput.edges)
        => /\ buildResult.status = "built"
           /\ {e.edge_idx : e \in {buildResult.edges[i] :
                                      i \in DOMAIN buildResult.edges}}
                  = ResolvableEdges(buildInput)
           /\ buildResult.reported
                  = DOMAIN buildInput.edges \ ResolvableEdges(buildInput)

\* The node_idx values of simulation nodes, and the edge_idx values of
\* simulation edges.
NodeIdsOf(result) == {result.nodes[i].node_idx : i \in DOMAIN result.nodes}
EdgeIdsOf(result) == {result.edges[i].edge_idx : i \in DOMAIN result.edges}

\* C24: a build that succeeds yields one simulation node per input node with
\* its node_idx and one simulation edge per input edge with its edge_idx;
\* the source and target of every simulation edge are simulation nodes whose
\* node_idx are the source and target identifiers of the input edge; no edge
\* with an unresolved end is among the simulation edges; and building again
\* from the same lists yields the same sets of node and edge identifiers.
C24_BuildResolvesByNodeIdx ==
    /\ buildResult.status = "built" =>
          /\ [i \in DOMAIN buildResult.nodes |->
                 buildResult.nodes[i].node_idx] = buildInput.nodes
          /\ DOMAIN buildResult.edges = DOMAIN buildInput.edges
          /\ \A i \in DOMAIN buildResult.edges :
                 LET e == buildResult.edges[i]
                     range == {buildResult.nodes[j] :
                                  j \in DOMAIN buildResult.nodes}
                 IN  /\ e.edge_idx = buildInput.edges[i].edge_idx
                     /\ e.source \in range
                     /\ e.target \in range
                     /\ e.source.node_idx = buildInput.edges[i].source
                     /\ e.target.node_idx = buildInput.edges[i].target
    /\ \A i \in EdgeIdsOf(buildResult) : i \in ResolvableEdges(buildInput)
    /\ prevResult.status # "none" =>
          /\ buildResult.status = prevResult.status
          /\ NodeIdsOf(buildResult) = NodeIdsOf(prevResult)
          /\ EdgeIdsOf(buildResult) = EdgeIdsOf(prevResult)

\* Two nodes and two edges between them, built twice at different positions.
C24_Witness ==
    /\ buildResult.status = "built"
    /\ prevResult.status = "built"
    /\ buildResult.nodes # prevResult.nodes
    /\ Len(buildResult.nodes) = 2
    /\ Len(buildResult.edges) = 2
    /\ \A i \in DOMAIN buildResult.edges :
           buildResult.edges[i].source # buildResult.edges[i].target

(***************************************************************************)
(* SpecApp: the application from mount.  Networks are selected, loaded and *)
(* installed; every installation commits the panes, whose effects run in   *)
(* the order of their declaration; the user focuses a pane, presses keys   *)
(* and clicks the fit button of the zoom controls.                         *)
(***************************************************************************)
\* The panes the user's focus, keys and button clicks go to: one node-link
\* pane and the k-snakes pane (the other node-link panes behave as the
\* first).
AppSubjects == {1, 2}

\* event.key values: the five keys handleKeyDown has a case for and another.
Keys == {"+", "=", "-", "Home", "0", "a"}

\* The bounds handleFitContent computes for a dataset with nodes: the box of
\* the node positions widened by the padding, so never of zero size.
ContentBounds == Bounds(0, 0, 100, 50)

\* The data prop of pane p keeps its identity only from null to null.
DataPropChanged(p, nd) ==
    ~(AppShape(p, networkData) = "null" /\ AppShape(p, nd) = "null")

\* The initialisation effect of pane p gets past its early return: the
\* container is mounted and the data is not null.  (Containers have a
\* positive size here.)
Builds(p, nd) ==
    /\ DataPropChanged(p, nd)
    /\ ~IsEmpty(AppShape(p, nd))
    /\ AppShape(p, nd) # "null"

\* The commit of the panes after networkData became nd.  Pane renders the
\* container iff the data is not null.  For a pane whose data prop changed
\* the reset effect calls resetZoom() on the surface svgRef still holds;
\* then the cleanup of the initialisation effect runs (in KSnakesPane it
\* disconnects the ResizeObserver) and the effect itself: it returns without
\* container or data, and otherwise replaces the surface, draws the elements
\* in their default style, and (KSnakesPane) observes the container; the
\* handler effect then attaches the element listeners.  The keyboard and
\* resize effects of NodeLinkPane and the highlighting effect do not run:
\* their dependencies did not change.  A replaced surface is out of the
\* document and is not followed here.
Commit(nd) ==
    /\ containerRef' = [p \in Panes |-> ~IsEmpty(AppShape(p, nd))]
    /\ lastBuilt' = [p \in Panes |->
                        IF Builds(p, nd) THEN AppShape(p, nd)
                        ELSE lastBuilt[p]]
    /\ svgRef' = [p \in Panes |-> svgRef[p] \/ Builds(p, nd)]
    /\ listeners' =
          [p \in Panes |->
              (IF containerRef[p] /\ ~IsEmpty(AppShape(p, nd))
               THEN listeners[p] \cap
                        (IF PaneKind[p] = "NodeLink"
                         THEN {"keydown", "resize"} ELSE {"keydown"})
               ELSE {})
              \cup (IF Builds(p, nd) /\ AppShape(p, nd) = "nodes"
                    THEN {"element"} ELSE {})
              \cup (IF Builds(p, nd) /\ PaneKind[p] = "KSnakes"
                    THEN {"resize"} ELSE {})]
    /\ activeElement' =
          IF activeElement # 0 /\ IsEmpty(AppShape(activeElement, nd))
          THEN 0 ELSE activeElement
    /\ styled' = [p \in Panes |->
                     IF Builds(p, nd) THEN EmptyStore ELSE styled[p]]
    /\ scheduled' =
          [p \in Panes |->
              IF Builds(p, nd) THEN <<>>
              ELSE IF DataPropChanged(p, nd) /\ svgRef[p]
                   THEN Append(scheduled[p],
                               [op |-> "resetZoom", target |-> ZoomIdentity])
                   ELSE scheduled[p]]
    /\ elemZoom' = [p \in Panes |->
                       IF Builds(p, nd) THEN ZoomIdentity ELSE elemZoom[p]]
    /\ running' = [p \in Panes |->
                      IF Builds(p, nd) THEN NoTransition ELSE running[p]]
    /\ zoomBound' = [p \in Panes |-> zoomBound[p] /\ ~Builds(p, nd)]
    /\ filterFnRef' = [p \in Panes |->
                          BuiltFilter(p, Builds(p, nd), filterFnRef[p])]
    /\ zoomFilter' = [p \in Panes |->
                         BuiltFilter(p, Builds(p, nd), zoomFilter[p])]
    /\ UNCHANGED <<value, cbNode, cbEdge, paneCtx, transform, viewBox,
                   clientRect, detached, step, viewOps, subject, frames,
                   zoomCalls>>

\* State no step of the application specifications touches.
appOtherVars == <<batch, histVars, simVars, buildVars, hookVars, furtherVars>>

\* The user picks another network; state updates of an event are rendered
\* before the next event or continuation runs.
AppSelectNetwork ==
    /\ ~pending
    /\ SelectNetwork

AppLoadInstalled ==
    \E i \in DOMAIN loads, nodeLink \in NodeLinkShapes, kSnakes \in BOOLEAN :
        LET nd == [id |-> loads[i], nodeLink |-> nodeLink,
                   kSnakes |-> kSnakes]
        IN  /\ ~pending
            /\ installData(i, nd)
            /\ Commit(nd)
            /\ appStep' = NoAppStep
            /\ UNCHANGED <<storeVars, pending, appOtherVars>>

AppLoadFailed ==
    \E i \in DOMAIN loads :
        /\ ~pending
        /\ installError(i)
        /\ Commit(NoData)
        /\ appStep' = NoAppStep
        /\ UNCHANGED <<storeVars, pending, appOtherVars>>

\* The render of SelectionProvider and its consumers.
AppRender ==
    /\ RenderProvider
    /\ UNCHANGED histVars

\* The user clicks or tabs into the container of a pane (tabIndex 0).
FocusPane ==
    \E p \in AppSubjects :
        /\ ~pending
        /\ containerRef[p]
        /\ activeElement # p
        /\ activeElement' = p
        /\ appStep' = NoAppStep
        /\ UNCHANGED <<containerRef, lastBuilt, listeners, storeVars, pending,
                       renderVars, svgRef, zoomVars, viewVars, netVars,
                       appOtherVars>>

\* The name of the function handleKeyDown calls for a key.
KeyCase(key) ==
    CASE key \in {"+", "="} -> "zoomIn"
      [] key = "-" -> "zoomOut"
      [] key = "Home" -> "resetZoom"
      [] key = "0" -> "handleFitContent"
      [] OTHER -> "none"

\* handleFitContent(): NodeLinkPane returns without a simulation or when the
\* simulation has no nodes; KSnakesPane returns without boundsRef.current,
\* which every build sets.
handleFitContent(p, bounds) ==
    IF \/ PaneKind[p] = "NodeLink" /\ lastBuilt[p] # "nodes"
       \/ PaneKind[p] = "KSnakes" /\ lastBuilt[p] = "null"
    THEN UNCHANGED <<scheduled, elemZoom, transform, running>>
    ELSE fitToContent(p, bounds, 0)

\* handleKeyDown(event) of pane p, run by the keydown listener when there is
\* one: it returns unless the container is the active element, and calls
\* preventDefault and the function of the key's case.
handleKeyDown(p, key) ==
    IF "keydown" \notin listeners[p] \/ activeElement # p
           \/ KeyCase(key) = "none"
    THEN /\ UNCHANGED <<scheduled, elemZoom, transform, running>>
         /\ appStep' = [NoAppStep EXCEPT !.kind = "keydown", !.pane = p]
    ELSE /\ CASE KeyCase(key) = "zoomIn" -> zoomIn(p)
              [] KeyCase(key) = "zoomOut" -> zoomOut(p)
              [] KeyCase(key) = "resetZoom" -> resetZoom(p)
              [] OTHER -> handleFitContent(p, ContentBounds)
         /\ appStep' = [NoAppStep EXCEPT !.kind = "keydown", !.pane = p,
                                         !.prevented = TRUE]

\* A keydown event reaches the container of pane p.
KeyDown(p, key) ==
    /\ ~pending
    /\ containerRef[p]
    /\ Len(scheduled[p]) < MaxScheduled
    /\ handleKeyDown(p, key)
    /\ UNCHANGED <<containerRef, lastBuilt, listeners, activeElement,
                   storeVars, pending, renderVars, svgRef, subject, viewBox,
                   frames, zoomCalls, viewVars, netVars, appOtherVars>>

KeyPress == \E p \in AppSubjects, key \in Keys : KeyDown(p, key)

\* The fit button of the zoom controls, rendered while the pane is not
\* empty; the click moves the focus to the button.
FitButton(p) ==
    /\ ~pending
    /\ containerRef[p]
    /\ Len(scheduled[p]) < MaxScheduled
    /\ handleFitContent(p, ContentBounds)
    /\ activeElement' = 0
    /\ appStep' = [NoAppStep EXCEPT !.kind = "fit", !.pane = p]
    /\ UNCHANGED <<containerRef, lastBuilt, listeners, storeVars, pending,
                   renderVars, svgRef, subject, viewBox, frames, zoomCalls,
                   viewVars, netVars, appOtherVars>>

FitClick == \E p \in AppSubjects : FitButton(p)

NextApp ==
    \/ AppSelectNetwork
    \/ AppLoadInstalled
    \/ AppLoadFailed
    \/ AppRender
    \/ FocusPane
    \/ KeyPress
    \/ FitClick

SpecApp == InitNet /\ [][NextApp]_vars

C26_ZeroNodesEmptyState ==
    [][\A p \in Panes :
           (PaneKind[p] = "NodeLink" /\ AppShape(p, networkData') = "empty")
               => /\ ~containerRef'[p]
                  /\ lastBuilt'[p] # "nodes"
                  /\ (FitButton(p) \/ KeyDown(p, "0"))
                        => UNCHANGED <<scheduled, elemZoom, transform,
                                       running>>]_vars

\* The viewport request a key stands for.
KeyRequest(key) ==
    CASE KeyCase(key) = "zoomIn" -> [op |-> "zoomIn", factor |-> ZoomInFactor]
      [] KeyCase(key) = "zoomOut" ->
             [op |-> "zoomOut", factor |-> ZoomOutFactor]
      [] OTHER -> [op |-> "resetZoom", target |-> ZoomIdentity]

\* C28: a keydown in a pane whose container is the focused element calls
\* preventDefault and requests zoom-in for '+' and '=', zoom-out for '-',
\* reset for 'Home' and fit-to-content for '0', on that pane's viewport
\* only; a keydown while the container is not the focused element, or of
\* another key, leaves every viewport as it was and does not call
\* preventDefault.
C28_KeysDriveFocusedPane ==
    [][\A p \in AppSubjects, key \in Keys :
           KeyDown(p, key) =>
               IF activeElement = p /\ KeyCase(key) # "none"
               THEN /\ appStep'.prevented
                    /\ \A q \in Panes \ {p} : scheduled'[q] = scheduled[q]
                    /\ IF KeyCase(key) = "handleFitContent"
                       THEN handleFitContent(p, ContentBounds)
                       ELSE svgRef[p] =>
                               scheduled'[p]
                                   = Append(scheduled[p], KeyRequest(key))
               ELSE /\ ~appStep'.prevented
                    /\ UNCHANGED <<scheduled, elemZoom, transform,
                                   running>>]_vars

(***************************************************************************)
(* SpecHooks: components call useSelection and useNetwork, inside and      *)
(* outside the providers, while the stores change.                         *)
(***************************************************************************)
\* The value NetworkProvider gives to its consumers.
NetworkValue ==
    [currentNetworkId |-> currentNetworkId, networkData |-> networkData,
     isLoading |-> isLoading, error |-> error]

nonHookVars ==
    <<storeVars, pending, renderVars, svgRef, batch, histVars, zoomVars,
      viewVars, simVars, netVars, buildVars, appVars, furtherVars>>

\* A component calls useSelection().
UseSelectionCall ==
    \E within \in BOOLEAN :
        /\ hookResult' = UseHook("useSelection", within, value)
        /\ UNCHANGED nonHookVars

\* A component calls useNetwork().
UseNetworkCall ==
    \E within \in BOOLEAN :
        /\ hookResult' = UseHook("useNetwork", within, NetworkValue)
        /\ UNCHANGED nonHookVars

NextHooks == NextNetwork \/ UseSelectionCall \/ UseNetworkCall

SpecHooks == InitNet /\ [][NextHooks]_vars

\* C27: a call of useSelection or useNetwork with no provider of its context
\* above throws; a call inside the provider returns the provider's value.
C27_HookOutsideProviderThrows ==
    hookResult.hook # "none" =>
        IF hookResult.within
        THEN hookResult.outcome = "returned" /\ hookResult.same
        ELSE hookResult.outcome = "threw"

C27_Witness ==
    /\ hookResult.hook = "useNetwork"
    /\ ~hookResult.within
    /\ hookResult.outcome = "threw"
    /\ networkData # NoData

(***************************************************************************)
(* SpecPointer: the application from mount, with the pointer entering,     *)
(* leaving and clicking the elements the panes show, while networks are    *)
(* selected, loaded and installed.                                         *)
(***************************************************************************)
\* State a pointer event on an element leaves alone.  The press and release
\* of a click without movement change no viewport: NodeLinkPane's filter
\* keeps the zoom behaviour off node presses, and on other elements the pan
\* gesture that starts ends without a zoom event.
pointerOtherVars ==
    <<containerRef, lastBuilt, listeners, activeElement, renderVars, svgRef,
      zoomVars, viewVars, netVars, appOtherVars>>

\* .on('click') of a node element: event.stopPropagation(), then
\* toggleNodeSelection(nodeIdx).
nodeClickedBubbles(p, nodeIdx) ==
    /\ appStep' = [NoAppStep EXCEPT !.kind = "click", !.pane = p]
    /\ toggleNodeSelection(nodeIdx)
nodeClicked(p, nodeIdx) ==
    /\ appStep' = [NoAppStep EXCEPT !.kind = "click", !.pane = p,
                                    !.stopped = TRUE]
    /\ toggleNodeSelection(nodeIdx)

\* .on('click') of an edge element: event.stopPropagation(), then
\* toggleEdgeSelection(edgeIdx).
edgeClicked(p, edgeIdx) ==
    /\ appStep' = [NoAppStep EXCEPT !.kind = "click", !.pane = p,
                                    !.stopped = TRUE]
    /\ toggleEdgeSelection(edgeIdx)

\* An event on an element of pane p, which is in the document with its
\* listeners attached.
ElementEvent(p, handler) ==
    /\ ~pending
    /\ "element" \in listeners[p]
    /\ handler
    /\ UNCHANGED pointerOtherVars

NodeClickOn(p, nodeIdx) == ElementEvent(p, nodeClicked(p, nodeIdx))

EdgeClickOn(p, edgeIdx) ==
    /\ PaneKind[p] = "NodeLink"
    /\ ElementEvent(p, edgeClicked(p, edgeIdx))

AppNodeClick == \E p \in Panes, i \in NodeIds : NodeClickOn(p, i)

AppEdgeClick == \E p \in Panes, e \in EdgeIds : EdgeClickOn(p, e)

\* .on('mouseenter') and .on('mouseleave', clearHover) of a node element
AppNodeEnter ==
    \E p \in Panes, i \in NodeIds :
        ElementEvent(p, hoverNode(i) /\ appStep' = NoAppStep)

AppElementLeave ==
    \E p \in Panes : ElementEvent(p, clearHover /\ appStep' = NoAppStep)

NextPointer ==
    \/ AppSelectNetwork
    \/ AppLoadInstalled
    \/ AppLoadFailed
    \/ AppRender
    \/ AppNodeEnter
    \/ AppElementLeave
    \/ AppNodeClick
    \/ AppEdgeClick

SpecPointer == InitNet /\ [][NextPointer]_vars

C30_StyleFollowsSets ==
    \A p \in Panes :
        (~pending /\ containerRef[p] /\ lastBuilt[p] = "nodes")
            => styled[p] = HighlightDeps(p, Store)

(***************************************************************************)
(* SpecScale: the scale of one pane's viewport (one pane of each kind), as *)
(* the double the program holds, under zoomIn and zoomOut calls that each  *)
(* complete before the next, starting from the identity transform.         *)
(***************************************************************************)
MaxScaleCalls == 6

nonScaleVars ==
    <<storeVars, pending, renderVars, svgRef, batch, histVars, zoomVars,
      viewVars, simVars, netVars, buildVars, appVars, hookVars>>

ScaleZoomIn ==
    /\ fz.count < MaxScaleCalls
    /\ fz' = IF svgRef[subject]
             THEN DoubleScaleBy(subject, fz, "zoomIn", DoubleZoomInFactor)
             ELSE fz
    /\ UNCHANGED <<nonScaleVars, latest, pointerOver, census, fit, heap>>

ScaleZoomOut ==
    /\ fz.count < MaxScaleCalls
    /\ fz' = IF svgRef[subject]
             THEN DoubleScaleBy(subject, fz, "zoomOut", DoubleZoomOutFactor)
             ELSE fz
    /\ UNCHANGED <<nonScaleVars, latest, pointerOver, census, fit, heap>>

\* zoomIn() and zoomOut() return at once without a surface.
NextScale == ScaleZoomIn \/ ScaleZoomOut

SpecScale == InitZoom /\ [][NextScale]_vars

\* The last two calls were a zoomIn and a zoomOut, in either order, and the
\* extent limited neither.
RoundTrip ==
    /\ Len(fz.calls) = 2
    /\ fz.calls[1].op # fz.calls[2].op
    /\ ~fz.calls[1].limited
    /\ ~fz.calls[2].limited

\* C38 as stated: when the extent limits neither call, a zoomIn followed by
\* a zoomOut, each completed, returns the scale to its starting value, and
\* so does a zoomOut followed by a zoomIn.
C38_RoundTripReturnsScale ==
    RoundTrip => fz.k = fz.calls[1].from

\* C38 as amended: when the extent limits neither call, a zoomIn followed
\* by a zoomOut, each completed, and a zoomOut followed by a zoomIn, leave
\* the scale at its starting value or at one of the two doubles next to it.
C38_RoundTripWithinRounding ==
    RoundTrip =>
        \/ fz.k = fz.calls[1].from
        \/ Neighbours(fz.k, fz.calls[1].from)

\* A zoomOut followed by a zoomIn has ended one double away from the scale
\* it started from.
C38_Witness ==
    /\ RoundTrip
    /\ fz.calls[1].op = "zoomOut"
    /\ fz.k # fz.calls[1].from
    /\ Neighbours(fz.k, fz.calls[1].from)

(***************************************************************************)
(* Further properties of SpecViewport.                                     *)
(***************************************************************************)
\* C35: when a dataset change has made a pane build its surface (the first
\* one or a rebuild), the zoom behaviour's listeners are on that surface at
\* once, so that a wheel or background-drag gesture passing the filter
\* updates the transform with no render in between.
C35_BuiltSurfaceHasZoom ==
    [][\A hasData \in BOOLEAN, size \in ContainerSizes :
           (/\ DatasetChange
            /\ DataChange(subject, hasData, size)
            /\ hasData
            /\ size.width # 0
            /\ size.height # 0)
             => zoomBound'[subject]]_vars

(***************************************************************************)
(* SpecLoads: the network store when consumers of useNetwork call          *)
(* loadNetwork while earlier calls still await their fetches, the fetches  *)
(* settling in every order.                                                *)
(***************************************************************************)
MaxLoads == 2

nonLoadVars ==
    <<storeVars, pending, renderVars, svgRef, batch, histVars, zoomVars,
      viewVars, simVars, buildVars, appVars, hookVars, fz, pointerOver,
      census, fit, heap>>

\* A consumer calls loadNetwork(networkId); nothing in loadNetwork looks at
\* isLoading or at the calls in flight.
CallLoadNetwork ==
    \E networkId \in NetworkIds :
        /\ Len(loads) < MaxLoads
        /\ loadNetwork(networkId)
        /\ latest' = IF networkId = currentNetworkId /\ networkData # NoData
                     THEN latest
                     ELSE [id |-> networkId, outcome |-> "pending"]
        /\ netStep' = [kind |-> "select", id |-> networkId,
                       shown |-> networkData]
        /\ UNCHANGED <<nonLoadVars, currentNetworkId, networkData>>

\* The outcome of the call at position i of those in flight, if it is the
\* latest call.
Settled(i, outcome) ==
    IF i = Len(loads) /\ latest.outcome = "pending"
    THEN [latest EXCEPT !.outcome = outcome]
    ELSE latest

FetchesResolved ==
    \E i \in DOMAIN loads, nodeLink \in NodeLinkShapes, kSnakes \in BOOLEAN :
        /\ installData(i, [id |-> loads[i], nodeLink |-> nodeLink,
                           kSnakes |-> kSnakes])
        /\ latest' = Settled(i, "installed")
        /\ UNCHANGED nonLoadVars

FetchesRejected ==
    \E i \in DOMAIN loads :
        /\ installError(i)
        /\ latest' = Settled(i, "failed")
        /\ UNCHANGED nonLoadVars

NextLoads ==
    \/ CallLoadNetwork
    \/ FetchesResolved
    \/ FetchesRejected

SpecLoads == InitNet /\ [][NextLoads]_vars

\* C39: once the loadNetwork calls in flight have all completed, the store
\* holds the id and the data of the most recently requested dataset (its
\* fetches having resolved), in whatever order the fetches settled; and at
\* every moment data other than null are those of the dataset
\* currentNetworkId names.
C39_LatestRequestWins ==
    /\ (loads = <<>> /\ latest.outcome = "installed")
         => /\ currentNetworkId = latest.id
            /\ networkData # NoData
            /\ networkData.id = latest.id
    /\ networkData # NoData => networkData.id = currentNetworkId

(***************************************************************************)
(* SpecHover: the mouse pointer entering and leaving the node and edge     *)
(* elements of the panes, one element at a time, while networks are        *)
(* selected, loaded and installed.  An element that is taken out of the    *)
(* document while the pointer is over it gets no mouseleave.               *)
(***************************************************************************)
hoverOtherVars ==
    <<batch, histVars, simVars, buildVars, hookVars, fz, latest, census,
      fit, heap>>

\* The pointer moves onto an element of pane p that carries the listeners
\* of the handler effect; its mouseenter handler runs.
PointerEnter(p, kind, idx) ==
    /\ ~pending
    /\ pointerOver = NoElement
    /\ "element" \in listeners[p]
    /\ kind = "edge" => PaneKind[p] = "NodeLink"
    /\ IF kind = "node" THEN hoverNode(idx) ELSE hoverEdge(idx)
    /\ pointerOver' = [pane |-> p, kind |-> kind, idx |-> idx]
    /\ appStep' = NoAppStep
    /\ UNCHANGED <<containerRef, lastBuilt, listeners, activeElement,
                   renderVars, svgRef, zoomVars, viewVars, netVars,
                   hoverOtherVars>>

PointerEnterNode == \E p \in Panes, i \in NodeIds : PointerEnter(p, "node", i)

PointerEnterEdge == \E p \in Panes, e \in EdgeIds : PointerEnter(p, "edge", e)

\* The pointer moves off the element it is over: .on('mouseleave', clearHover)
PointerLeave ==
    /\ ~pending
    /\ pointerOver # NoElement
    /\ clearHover
    /\ pointerOver' = NoElement
    /\ appStep' = NoAppStep
    /\ UNCHANGED <<containerRef, lastBuilt, listeners, activeElement,
                   renderVars, svgRef, zoomVars, viewVars, netVars,
                   hoverOtherVars>>

\* The data of a load are installed and the panes commit; the elements of a
\* pane that rebuilds are removed, the one under the pointer with them.
HoverLoadInstalled ==
    \E i \in DOMAIN loads, nodeLink \in NodeLinkShapes, kSnakes \in BOOLEAN :
        LET nd == [id |-> loads[i], nodeLink |-> nodeLink,
                   kSnakes |-> kSnakes]
        IN  /\ ~pending
            /\ installData(i, nd)
            /\ Commit(nd)
            /\ pointerOver' = IF pointerOver.pane \in Panes
                                   /\ DataPropChanged(pointerOver.pane, nd)
                               THEN NoElement ELSE pointerOver
            /\ appStep' = NoAppStep
            /\ UNCHANGED <<storeVars, pending, hoverOtherVars>>

HoverLoadFailed ==
    \E i \in DOMAIN loads :
        /\ ~pending
        /\ installError(i)
        /\ Commit(NoData)
        /\ pointerOver' = IF pointerOver.pane \in Panes
                               /\ DataPropChanged(pointerOver.pane, NoData)
                           THEN NoElement ELSE pointerOver
        /\ appStep' = NoAppStep
        /\ UNCHANGED <<storeVars, pending, hoverOtherVars>>

NextHover ==
    \/ AppSelectNetwork
    \/ HoverLoadInstalled
    \/ HoverLoadFailed
    \/ AppRender
    \/ PointerEnterNode
    \/ PointerEnterEdge
    \/ PointerLeave

SpecHover == InitNet /\ [][NextHover]_vars

\* C34: after any sequence of pointer events across the panes, the
\* hovered-node set and the hovered-edge set together hold at most one
\* identifier: a node and an edge are never hovered at the same time.
C34_AtMostOneHovered ==
    Cardinality(hoveredNodes) + Cardinality(hoveredEdges) <= 1

(***************************************************************************)
(* SpecCensus: a HopCensusPane whose data prop changes and whose container *)
(* is resized, with the pointer entering, leaving and clicking its lines,  *)
(* next to the panes of the application under dataset loads.               *)
(***************************************************************************)
\* The pane index of the HopCensusPane for pointerOver.
CensusPane == Cardinality(Panes) + 1

censusOtherVars ==
    <<renderVars, svgRef, zoomVars, viewVars, netVars, appVars, batch,
      histVars, simVars, buildVars, hookVars, fz, latest, fit, heap>>

\* The lines of the document are replaced: the one under the pointer is
\* removed without a mouseleave.
OffRemovedLine ==
    IF pointerOver.pane = CensusPane THEN NoElement ELSE pointerOver

CensusDataChange ==
    \E d \in DataIds \ {census.data} :
        /\ ~pending
        /\ census' = CensusCommit(census, d)
        /\ pointerOver' = OffRemovedLine
        /\ UNCHANGED <<storeVars, pending, censusOtherVars>>

\* The container is resized; its observer is due a notification.
CensusResize ==
    \E area \in BOOLEAN :
        /\ census.data # 0
        /\ ~census.notify
        /\ census' = [census EXCEPT !.area = area, !.notify = census.observer]
        /\ UNCHANGED <<storeVars, pending, pointerOver, censusOtherVars>>

\* A notification is delivered.
CensusNotified ==
    /\ census.observer
    /\ census.notify
    /\ census' = CensusResizeCallback(census)
    /\ pointerOver' = OffRemovedLine
    /\ UNCHANGED <<storeVars, pending, censusOtherVars>>

\* The pointer moves onto the line of node i, off the line it is over, or
\* clicks it: the listener runs if the line has one.
CensusEnter ==
    \E i \in NodeIds :
        /\ ~pending
        /\ census.shown # 0
        /\ census.area
        /\ pointerOver = NoElement
        /\ pointerOver' = [pane |-> CensusPane, kind |-> "node", idx |-> i]
        /\ IF census.handlers THEN hoverNode(i)
           ELSE UNCHANGED <<storeVars, pending>>
        /\ UNCHANGED <<census, censusOtherVars>>

CensusLeave ==
    /\ ~pending
    /\ pointerOver.pane = CensusPane
    /\ pointerOver' = NoElement
    /\ IF census.handlers THEN clearHover
       ELSE UNCHANGED <<storeVars, pending>>
    /\ UNCHANGED <<census, censusOtherVars>>

CensusClick ==
    /\ ~pending
    /\ pointerOver.pane = CensusPane
    /\ census.handlers
    /\ toggleNodeSelection(pointerOver.idx)
    /\ UNCHANGED <<census, pointerOver, censusOtherVars>>

NextCensus ==
    \/ CensusDataChange
    \/ CensusResize
    \/ CensusNotified
    \/ CensusEnter
    \/ CensusLeave
    \/ CensusClick
    \/ AppSelectNetwork
    \/ HoverLoadInstalled
    \/ HoverLoadFailed
    \/ AppRender

SpecCensus == InitNet /\ [][NextCensus]_vars

\* C36: whenever a pane's elements have been rebuilt (by a dataset change
\* in any pane, or by a resize notification, the first one included, in the
\* Hop-Census pane), the elements in the document carry their mouseenter,
\* mouseleave and click listeners.
C36_RebuiltElementsHaveHandlers ==
    /\ \A p \in Panes :
           (containerRef[p] /\ lastBuilt[p] = "nodes")
               => "element" \in listeners[p]
    /\ census.shown # 0 => census.handlers

(***************************************************************************)
(* SpecFit: fit to content of the node layouts of a node-link pane         *)
(***************************************************************************)
MaxFitNodes == 2

\* Node positions of the layouts: far apart across, close together down.
FitPositions == [x : {-120, 200}, y : {0, 30}]

FitLayouts == UNION {[1..n -> FitPositions] : n \in 1..MaxFitNodes}

\* Sizes getBoundingClientRect() reports for the surface: square, wide,
\* and none while it is not laid out.
FitSurfaces ==
    {[width |-> 200, height |-> 200], [width |-> 400, height |-> 100],
     [width |-> 0, height |-> 0]}

FitPane == CHOOSE p \in Panes : PaneKind[p] = "NodeLink"

fitOtherVars ==
    <<storeVars, pending, renderVars, svgRef, batch, histVars, zoomVars,
      viewVars, simVars, netVars, buildVars, appVars, hookVars, fz, latest,
      pointerOver, census, heap>>

\* The pane builds its surface and a simulation whose nodes are laid out.
FitBuild ==
    \E nodes \in FitLayouts, rect \in FitSurfaces :
        /\ rect.width > 0
        /\ fit' = [NoFit EXCEPT !.nodes = nodes, !.rect = rect]
        /\ UNCHANGED fitOtherVars

\* A tick or a drag moves a node.
FitTick ==
    \E i \in DOMAIN fit.nodes, pos \in FitPositions :
        /\ pos # fit.nodes[i]
        /\ fit' = [fit EXCEPT !.nodes[i] = pos,
                              !.changed = fit.phase # "idle"]
        /\ UNCHANGED fitOtherVars

\* The surface, styled to fill its container, changes size with it.
FitResize ==
    \E rect \in FitSurfaces :
        /\ fit.nodes # <<>>
        /\ rect # fit.rect
        /\ fit' = [fit EXCEPT !.rect = rect, !.changed = fit.phase # "idle"]
        /\ UNCHANGED fitOtherVars

\* handleFitContent() and the fitToContent(bounds) it calls: the transition
\* it creates replaces one that is running.
FitContent ==
    /\ fit.nodes # <<>>
    /\ ~DegenerateFit(fit.rect, nodeBounds(fit.nodes))
    /\ fit' = [fit EXCEPT
                 !.phase = "running",
                 !.changed = FALSE,
                 !.transform =
                     FitTransform(FitPane, fit.rect, nodeBounds(fit.nodes), 0)]
    /\ UNCHANGED fitOtherVars

\* The last frame of the transition stores its target transform.
FitTransitionEnd ==
    /\ fit.phase = "running"
    /\ fit' = [fit EXCEPT !.phase = "done"]
    /\ UNCHANGED fitOtherVars

NextFit ==
    \/ FitBuild
    \/ FitTick
    \/ FitResize
    \/ FitContent
    \/ FitTransitionEnd

SpecFit == InitNet /\ [][NextFit]_vars

\* The position of node i under the transform, within the surface.
OnSurface(i) ==
    LET at == ApplyTransform(fit.transform, fit.nodes[i])
    IN /\ RLeq(Rat(0, 1), at.x) /\ RLeq(at.x, Rat(fit.rect.width, 1))
       /\ RLeq(Rat(0, 1), at.y) /\ RLeq(at.y, Rat(fit.rect.height, 1))

\* C37: once a fit to content has completed, with the node positions (and
\* the surface) as they were when its bounds were computed, the transform
\* puts every simulation node inside [0, W] x [0, H], whatever the layout.
C37_FitShowsEveryNode ==
    (fit.phase = "done" /\ ~fit.changed)
        => \A i \in DOMAIN fit.nodes : OnSurface(i)

\* Two nodes apart, fitted at a scale below the maximum.
C37_Witness ==
    /\ fit.phase = "done"
    /\ ~fit.changed
    /\ Len(fit.nodes) = 2
    /\ fit.nodes[1].x # fit.nodes[2].x
    /\ RLess(fit.transform.k, ScaleExtent(FitPane)[2])

(***************************************************************************)
(* SpecRecords: three node-link panes on the records of one dataset        *)
(***************************************************************************)
recordsOtherVars ==
    <<storeVars, pending, renderVars, svgRef, batch, histVars, zoomVars,
      viewVars, simVars, netVars, buildVars, appVars, hookVars, fz, latest,
      pointerOver, census, fit>>

\* The records an array holds.
RecordsOf(h, refs) == [i \in DOMAIN refs |-> h.objs[refs[i]]]

\* The response of a dataset is parsed and installed: two nodes and an edge
\* between them.
RecordsLoad ==
    /\ heap.objs = <<>>
    /\ heap' = [heap EXCEPT
                  !.objs = <<NodeRecord(1), NodeRecord(2), EdgeRecord(1, 1, 2)>>,
                  !.nodes = <<1, 2>>,
                  !.edges = <<3>>,
                  !.step = [kind |-> "load", pane |-> 0]]
    /\ UNCHANGED recordsOtherVars

\* The initialisation effect of pane p: it copies the node and the edge
\* records, places the nodes and builds the simulation on the copies.
RecordsBuild(p) ==
    \E pos \in [DOMAIN heap.nodes -> Positions] :
        /\ heap.nodes # <<>>
        /\ ~heap.pane[p].built
        /\ LET n == mapSpread(heap.objs, heap.nodes)
               e == mapSpread(Place(n.objs, n.refs, pos), heap.edges)
           IN heap' = [heap EXCEPT
                         !.objs = forceLink(e.objs, n.refs, e.refs),
                         !.pane[p] = [built |-> TRUE, nodes |-> n.refs,
                                      edges |-> e.refs],
                         !.step = [kind |-> "build", pane |-> p]]
        /\ UNCHANGED recordsOtherVars

\* A tick of the simulation of pane p moves its nodes.
RecordsTick(p) ==
    \E to \in [DOMAIN heap.pane[p].nodes -> Positions] :
        /\ heap.pane[p].built
        /\ LET nodes == heap.pane[p].nodes
           IN heap' = [heap EXCEPT
                         !.objs =
                             [o \in DOMAIN heap.objs |->
                                 IF \E i \in DOMAIN nodes : nodes[i] = o
                                 THEN TickNode(heap.objs[o],
                                          to[CHOOSE i \in DOMAIN nodes :
                                                 nodes[i] = o])
                                 ELSE heap.objs[o]],
                         !.step = [kind |-> "tick", pane |-> p]]
        /\ UNCHANGED recordsOtherVars

\* dragstarted, dragged and dragended on the i-th node of pane p:
\* event.subject is the record bound to the node's element.
RecordsDragStart(p, i) ==
    /\ heap.pane[p].built
    /\ heap.drag = NoDrag
    /\ LET o == heap.pane[p].nodes[i]
       IN heap' = [heap EXCEPT
                     !.objs[o].fx = heap.objs[o].x,
                     !.objs[o].fy = heap.objs[o].y,
                     !.drag = [pane |-> p, node |-> i],
                     !.step = [kind |-> "dragstarted", pane |-> p]]
    /\ UNCHANGED recordsOtherVars

RecordsDragged(p, i) ==
    \E pointer \in Positions :
        /\ heap.drag = [pane |-> p, node |-> i]
        /\ LET o == heap.pane[p].nodes[i]
           IN heap' = [heap EXCEPT
                         !.objs[o].fx = pointer.x,
                         !.objs[o].fy = pointer.y,
                         !.step = [kind |-> "dragged", pane |-> p]]
        /\ UNCHANGED recordsOtherVars

RecordsDragEnd(p, i) ==
    /\ heap.drag = [pane |-> p, node |-> i]
    /\ LET o == heap.pane[p].nodes[i]
       IN heap' = [heap EXCEPT
                     !.objs[o].fx = Null,
                     !.objs[o].fy = Null,
                     !.drag = NoDrag,
                     !.step = [kind |-> "dragended", pane |-> p]]
    /\ UNCHANGED recordsOtherVars

PaneBuilds == \E p \in NodeLinkPanes : RecordsBuild(p)
PaneTicks == \E p \in NodeLinkPanes : RecordsTick(p)
PaneDragStarts ==
    \E p \in NodeLinkPanes :
        \E i \in DOMAIN heap.pane[p].nodes : RecordsDragStart(p, i)
PaneDrags ==
    \E p \in NodeLinkPanes :
        \E i \in DOMAIN heap.pane[p].nodes : RecordsDragged(p, i)
PaneDragEnds ==
    \E p \in NodeLinkPanes :
        \E i \in DOMAIN heap.pane[p].nodes : RecordsDragEnd(p, i)

NextRecords ==
    \/ RecordsLoad
    \/ PaneBuilds
    \/ PaneTicks
    \/ PaneDragStarts
    \/ PaneDrags
    \/ PaneDragEnds

SpecRecords == InitNet /\ [][NextRecords]_vars

\* The kinds of step a tick or a drag of a pane's simulation takes.
PaneMoves == {"tick", "dragstarted", "dragged", "dragended"}

\* C31: a tick or a drag in one node-link pane leaves the node and edge
\* records of every other node-link pane as they were (positions, fx and fy
\* included), and the node and edge records of the loaded dataset too.
C31_PanesOwnTheirRecords ==
    [][heap'.step.kind \in PaneMoves
         => /\ RecordsOf(heap', heap'.nodes) = RecordsOf(heap, heap.nodes)
            /\ RecordsOf(heap', heap'.edges) = RecordsOf(heap, heap.edges)
            /\ \A q \in NodeLinkPanes \ {heap'.step.pane} :
                   /\ RecordsOf(heap', heap'.pane[q].nodes)
                          = RecordsOf(heap, heap.pane[q].nodes)
                   /\ RecordsOf(heap', heap'.pane[q].edges)
                          = RecordsOf(heap, heap.pane[q].edges)]_vars

\* Every node-link pane has built its simulation, a node of one pane has
\* just been dragged to where the same node of another pane is not, and the
\* dataset's records have neither positions nor node objects in their edges.
C31_Witness ==
    /\ \A p \in NodeLinkPanes : heap.pane[p].built
    /\ heap.step.kind = "dragged"
    /\ \E q \in NodeLinkPanes \ {heap.step.pane} :
           LET mine == heap.objs[heap.pane[heap.step.pane].nodes[heap.drag.node]]
               theirs == heap.objs[heap.pane[q].nodes[heap.drag.node]]
           IN mine.fx # Null /\ theirs.fx = Null /\ mine.x # theirs.x
    /\ RecordsOf(heap, heap.nodes) = <<NodeRecord(1), NodeRecord(2)>>
    /\ RecordsOf(heap, heap.edges) = <<EdgeRecord(1, 1, 2)>>

=========================================================================
